---------------------------- MODULE Spec2Model ----------------------------
(***************************************************************************)
(* CAPP turning planner: the turnability gate of step_analyzer.py and the  *)
(* process-plan synthesis of capp_turning_planner.py.                      *)
(*                                                                         *)
(* Units.  The Python code computes on floats; the model computes on       *)
(* integers in fixed units so that every comparison of the code is exact:  *)
(*   lengths            tenths of a millimetre   (20 mm      = 200)        *)
(*   scaled diameters   hundredths of a mm       (0.8 * 20mm = 1600)       *)
(*   material factors   hundredths               (1.15       = 115)        *)
(*   feed               hundredths of mm/rev     (0.20       = 20)         *)
(*   depth of cut       hundredths of a mm       (2.0        = 200)        *)
(*   estimated time     tenths of a minute       (2.5        = 25)         *)
(*   tolerance          thousandths of a mm      (0.05       = 50)         *)
(*   roughness Ra       hundredths of a um       (1.6        = 160)        *)
(*   power              tenths of a kW           (14.9       = 149)        *)
(*   specific power     thousandths              (0.05       = 50)         *)
(*   milling score      tenths of a point        (Cylinder/10 is a float)  *)
(*   planner's score    tenths of a point        (it may be the milling's) *)
(* Ratios are compared by cross multiplication.                            *)
(***************************************************************************)
EXTENDS Integers, Sequences, FiniteSets, TLC

VARIABLES
    pc,        \* position in generate_turning_plan / in the caller of the class
    inp,       \* the inputs of this run: geometry digest and request parameters
    analysis,  \* the dict returned by analyze_step_file (or handed in by the caller)
    plan,      \* the fields of the TurningProcessPlan object
    ret,       \* the value returned by the last method call on the plan
    result,    \* the dict returned by generate_turning_plan
    selected_file,    \* CAPPApplication.selected_file
    is_processing,    \* CAPPApplication.is_processing
    analysis_result,  \* CAPPApplication.analysis_result
    status,           \* the text of CAPPApplication.status_var
    dialog,           \* the message box shown last
    worker            \* position of each _run_analysis thread

\* The fields of the desktop application and its analysis threads.
gui == <<selected_file, is_processing, analysis_result, status, dialog, worker>>

vars == <<pc, inp, analysis, plan, ret, result,
          selected_file, is_processing, analysis_result, status, dialog, worker>>

\* Python's None for the optional numeric targets.
NoneVal == 0 - 1

Max(a, b) == IF a >= b THEN a ELSE b
Min(a, b) == IF a <= b THEN a ELSE b
Abs(a) == IF a >= 0 THEN a ELSE 0 - a

\* a/b >= c/d for a, c >= 0 and b, d > 0, by Euclid's algorithm on the two
\* fractions: no product is formed, so no intermediate value overflows.
RECURSIVE FracGE(_, _, _, _)
FracGE(a, b, c, d) ==
    IF (a \div b) # (c \div d) THEN (a \div b) > (c \div d)
    ELSE IF c % d = 0 THEN TRUE
    ELSE IF a % b = 0 THEN FALSE
    ELSE FracGE(d, c % d, b, a % b)

\* <<q, r>> stands for q * c + r with 0 <= r < c.  Times100 multiplies the
\* number by 100 and returns it in the same form (long division by c).
Times100(qr, c) ==
    << qr[1] * 100 + ((qr[2] * 100) \div c), (qr[2] * 100) % c >>

\* round(n / d) to the nearest integer, ties to even, as Python's round().
RoundHalfEven(n, d) ==
    LET q == n \div d
        r == n % d
    IN  IF 2 * r < d THEN q
        ELSE IF 2 * r > d THEN q + 1
        ELSE IF q % 2 = 0 THEN q ELSE q + 1

(***************************************************************************)
(* Configuration tables of capp_turning_planner.py                         *)
(***************************************************************************)
DEFAULT_MATERIAL_PROFILE == "EN8 / EN8D"
DEFAULT_MACHINE_PROFILE == "ACE Designers CNC Turning Center"

MATERIAL_SPEED_FACTORS ==
    [ m \in { "EN8 / EN8D", "EN1A (Free-cutting steel)", "EN19 / 42CrMo4",
              "C45 / CK45", "20MnCr5 / EN353", "SS304", "SS316 / 316L", "SS410",
              "Aluminum 6061 / 6082", "Brass (CW614N / CuZn39Pb3)" } |->
        CASE m = "EN8 / EN8D" -> 100
          [] m = "EN1A (Free-cutting steel)" -> 115
          [] m = "EN19 / 42CrMo4" -> 80
          [] m = "C45 / CK45" -> 95
          [] m = "20MnCr5 / EN353" -> 90
          [] m = "SS304" -> 65
          [] m = "SS316 / 316L" -> 60
          [] m = "SS410" -> 85
          [] m = "Aluminum 6061 / 6082" -> 170
          [] m = "Brass (CW614N / CuZn39Pb3)" -> 180 ]

SPECIFIC_POWER_KW_PER_CM3_MIN ==
    [ m \in DOMAIN MATERIAL_SPEED_FACTORS |->
        CASE m = "EN8 / EN8D" -> 50
          [] m = "EN1A (Free-cutting steel)" -> 45
          [] m = "EN19 / 42CrMo4" -> 65
          [] m = "C45 / CK45" -> 55
          [] m = "20MnCr5 / EN353" -> 60
          [] m = "SS304" -> 70
          [] m = "SS316 / 316L" -> 75
          [] m = "SS410" -> 60
          [] m = "Aluminum 6061 / 6082" -> 30
          [] m = "Brass (CW614N / CuZn39Pb3)" -> 30 ]

Machine(rpm, kw, dia, len) ==
    [ max_rpm |-> rpm, max_power_kw |-> kw,
      max_turning_diameter_mm |-> dia, max_turning_length_mm |-> len ]

MACHINE_PROFILES ==
    [ m \in { "ACE Designers CNC Turning Center", "Jyoti CNC Turning Center",
              "LMW CNC Turning Center", "BFW CNC Turning Center", "Haas ST Series",
              "Mazak QUICK TURN Series", "Okuma CNC Lathe", "DMG MORI Turning Center",
              "DN Solutions Lynx/Puma", "HMT CNC Lathe" } |->
        CASE m = "ACE Designers CNC Turning Center" -> Machine(4000, 149, 2620, 5720)
          [] m = "Jyoti CNC Turning Center" -> Machine(4000, 149, 2600, 6000)
          [] m = "LMW CNC Turning Center" -> Machine(4000, 150, 3000, 6500)
          [] m = "BFW CNC Turning Center" -> Machine(3500, 120, 2800, 6000)
          [] m = "Haas ST Series" -> Machine(4000, 149, 2620, 5720)
          [] m = "Mazak QUICK TURN Series" -> Machine(5000, 185, 3000, 6000)
          [] m = "Okuma CNC Lathe" -> Machine(4500, 185, 3000, 6000)
          [] m = "DMG MORI Turning Center" -> Machine(5000, 185, 3000, 6000)
          [] m = "DN Solutions Lynx/Puma" -> Machine(4500, 150, 2800, 6000)
          [] m = "HMT CNC Lathe" -> Machine(1800, 112, 4060, 7620) ]

(***************************************************************************)
(* step_analyzer.py: the axis fit                                          *)
(***************************************************************************)
\* An axis cue is a unit vector.  The model writes a cue as an integer
\* vector, all cues of one run having the same length: <<0, 9, 40>> and
\* <<0, 0, 41>> are the unit vectors (0, 9/41, 40/41) and (0, 0, 1).

dot(a, b) == (a[1] * b[1]) + (a[2] * b[2]) + (a[3] * b[3])

RECURSIVE accumulate(_, _, _)
accumulate(seed, rest, accum) ==
    IF rest = << >> THEN accum
    ELSE LET axis == Head(rest)
             sign == IF dot(seed, axis) >= 0 THEN 1 ELSE 0 - 1
         IN  accumulate(seed, Tail(rest),
                        << accum[1] + axis[1] * sign,
                           accum[2] + axis[2] * sign,
                           accum[3] + axis[3] * sign >>)

\* _normalize_vector returns None for a vector of magnitude <= 1e-9; the sum
\* of integer vectors has such a magnitude only when it is the zero vector.
normalize_is_none(vec) == dot(vec, vec) = 0

\* A comparison in the other direction: the cue is outside the cone.
cos_at_most(v, axis, cos2_millionths) ==
    FracGE(cos2_millionths, 1000000,
           dot(v, axis) * dot(v, axis), dot(v, v) * dot(axis, axis))

\* cos_angle >= cos(deg) for cos_angle = min(1, max(0, |dot(best, axis)|)),
\* best = v / |v|: compared on the squares, cos(8 deg)^2 = 0.980631 and
\* cos(15 deg)^2 = 0.933013 to six places.
cos_at_least(v, axis, cos2_millionths) ==
    FracGE(dot(v, axis) * dot(v, axis), dot(v, v) * dot(axis, axis),
           cos2_millionths, 1000000)

\* The cue is parallel to the best axis: cos_angle = 1 and acos gives 0.
parallel(v, axis) ==
    dot(v, axis) * dot(v, axis) = dot(v, v) * dot(axis, axis)

\* A mean misalignment strictly between 0 and 90 degrees, in hundredths of a
\* degree.  The model does not compute acos: it keeps apart the mean 0 (every
\* cue parallel to the best axis), the 90 of the empty cue list, and any
\* other mean, which stands as this smallest positive value.
positive_misalignment == 1

\* A mean that is positive whatever the cues are.
mean_misalignment_never_zero(best, rot_axes) == positive_misalignment

\* round(sum(misalignment) / count, 2), in hundredths of a degree.
mean_misalignment_deg(best, rot_axes) ==
    IF \A i \in DOMAIN rot_axes : parallel(best, rot_axes[i]) THEN 0
    ELSE positive_misalignment

\* An empty-list result that claims to be available.
no_axis_fit_but_available ==
    [ available |-> TRUE, best |-> <<0, 0, 1>>,
      aligned_8 |-> 0, aligned_15 |-> 0, count |-> 0,
      mean_misalignment_deg |-> 9000 ]

\* The result for an empty cue list: aligned ratios 0.0, mean misalignment 90.
no_axis_fit ==
    [ available |-> FALSE, best |-> <<0, 0, 1>>,
      aligned_8 |-> 0, aligned_15 |-> 0, count |-> 0,
      mean_misalignment_deg |-> 9000 ]

\* aligned_ratio_8deg = aligned_8 / count, aligned_ratio_15deg = aligned_15 / count.
compute_best_fit_axis(rot_axes) ==
    IF rot_axes = << >> THEN no_axis_fit
    ELSE
        LET seed == rot_axes[1]
            accum == accumulate(seed, Tail(rot_axes), seed)
            best == IF normalize_is_none(accum) THEN seed ELSE accum
            n8 == Cardinality({ i \in DOMAIN rot_axes :
                                  cos_at_least(best, rot_axes[i], 980631) })
            n15 == Cardinality({ i \in DOMAIN rot_axes :
                                   cos_at_least(best, rot_axes[i], 933013) })
        IN  [ available |-> TRUE, best |-> best,
              aligned_8 |-> n8, aligned_15 |-> n15, count |-> Len(rot_axes),
              mean_misalignment_deg |-> mean_misalignment_deg(best, rot_axes) ]

(***************************************************************************)
(* step_analyzer.py: analyze_machinability                                 *)
(***************************************************************************)
SurfaceKinds == { "Plane", "Cylinder", "Sphere", "Cone", "Torus",
                  "BezierSurface", "BSplineSurface", "Other" }

RECURSIVE SumOver(_, _)
SumOver(f, keys) ==
    IF keys = {} THEN 0
    ELSE LET k == CHOOSE x \in keys : TRUE
         IN  f[k] + SumOver(f, keys \ {k})

sum_values(f) == SumOver(f, DOMAIN f)

\* No clamp at all.
unclamped(v) == v

\* max(0, min(100, v))
Clamp0_100(v) == Max(0, Min(100, v))

\* milling_score, in tenths of a point (Cylinder / 10 is a float).
milling_score(surface_types, dimensions) ==
    LET total == sum_values(surface_types)
        plane == surface_types["Plane"]
        s1 == IF total > 0 /\ 2 * plane > total THEN 300
              ELSE IF total > 0 /\ 10 * plane > 3 * total THEN 200
              ELSE 0
        s2 == IF surface_types["Cylinder"] > 0
              THEN Min(200, surface_types["Cylinder"]) ELSE 0
        complex_surfaces == surface_types["BezierSurface"] + surface_types["BSplineSurface"]
        s3 == IF complex_surfaces > 0 THEN Min(30, complex_surfaces * 2) * 10 ELSE 0
        s4 == IF Max(dimensions.x_size, Max(dimensions.y_size, dimensions.z_size)) < 5000
              THEN 100 ELSE 0
    IN  Max(0, Min(1000, s1 + s2 - s3 + s4 + 400))

printing_score(surface_types, dimensions) ==
    LET complex_surfaces == surface_types["BezierSurface"] + surface_types["BSplineSurface"]
                            + surface_types["Other"]
        s1 == IF complex_surfaces > 0 THEN Min(40, complex_surfaces * 2) ELSE 0
        s2 == IF Max(dimensions.x_size, Max(dimensions.y_size, dimensions.z_size)) < 2500
              THEN 30 ELSE 0
        unique_surfaces == Cardinality({ k \in SurfaceKinds : surface_types[k] > 0 })
        s3 == IF unique_surfaces >= 4 THEN 20 ELSE 0
    IN  Clamp0_100(s1 + s2 + s3 + 30)

\* The seven strict checks, from the surface and edge counts, the bounding
\* box (in thousandths of a mm here, for the 0.001 floor) and the axis fit.
\* A total without its floor.
total_unfloored(counts) == sum_values(counts)

\* total_surfaces = max(sum(surface_types.values()), 1), and total_edges alike
total_count(counts) == Max(sum_values(counts), 1)

strict_checks_of(surface_types, edge_types, dimensions, axis_fit) ==
    LET total_surfaces == total_count(surface_types)
        total_edges == total_count(edge_types)
        circle == edge_types["Circle"]
        complex_surfaces == surface_types["BezierSurface"] + surface_types["BSplineSurface"]
                            + surface_types["Other"]
        x_size == Max(dimensions.x_size * 100, 1)
        y_size == Max(dimensions.y_size * 100, 1)
        z_size == Max(dimensions.z_size * 100, 1)
        radial_size == Max(x_size, y_size)
        rotational_face_count == surface_types["Cylinder"] + surface_types["Cone"]
        minor_non_rotational_faces == Max(total_surfaces - rotational_face_count, 0)
        axisymmetric_bestfit ==
            axis_fit.available /\ 100 * axis_fit.aligned_8 >= 60 * axis_fit.count
        axisymmetric_relaxed ==
            axis_fit.available /\ 100 * axis_fit.aligned_15 >= 72 * axis_fit.count
        turnable_majority ==
            /\ axisymmetric_relaxed
            /\ \/ 100 * rotational_face_count >= 18 * total_surfaces
               \/ 100 * circle >= 18 * total_edges
               \/ 100 * (rotational_face_count * total_edges + circle * total_surfaces)
                    >= 36 * total_surfaces * total_edges
            /\ 100 * minor_non_rotational_faces <= 85 * total_surfaces
        small_asymmetry_ok ==
            \/ minor_non_rotational_faces <= 12
            \/ 100 * minor_non_rotational_faces <= 45 * total_surfaces
            \/ /\ axis_fit.available
               /\ 100 * axis_fit.aligned_8 >= 70 * axis_fit.count
               /\ 100 * circle >= 20 * total_edges
    IN  [ axisymmetric_xy |-> axisymmetric_bestfit,
          turnable_majority |-> turnable_majority,
          small_asymmetry_ok |-> small_asymmetry_ok,
          cylindrical_dominance |->
              rotational_face_count >= 4 \/ 100 * rotational_face_count >= 12 * total_surfaces,
          circular_edge_support |-> 100 * circle >= 4 * total_edges \/ circle >= 6,
          limited_complexity |->
              ~(complex_surfaces > 40 /\ 4 * complex_surfaces > 3 * total_surfaces),
          reasonable_aspect_ratio |->
              5 * z_size >= radial_size /\ z_size <= 12 * radial_size ]

\* xy_delta_ratio <= 0.25 on the floored extents.
xy_delta_small(dimensions) ==
    LET x_size == Max(dimensions.x_size * 100, 1)
        y_size == Max(dimensions.y_size * 100, 1)
    IN  4 * Abs(x_size - y_size) <= Max(x_size, y_size)

\* A score without the fallback envelope bonus.
turning_raw_score_without_fallback(checks, axis_fit, dimensions) ==
      (IF checks.axisymmetric_xy THEN 28 ELSE 0 - 20)
    + (IF checks.turnable_majority THEN 16 ELSE 0 - 8)
    + (IF checks.small_asymmetry_ok THEN 6 ELSE 0 - 6)
    + (IF checks.cylindrical_dominance THEN 20 ELSE 0 - 15)
    + (IF checks.circular_edge_support THEN 18 ELSE 0 - 10)
    + (IF checks.limited_complexity THEN 12 ELSE 0 - 20)
    + (IF checks.reasonable_aspect_ratio THEN 10 ELSE 0 - 12)

\* A score whose cylindrical_dominance delta has the signs exchanged.
turning_raw_score_dominance_exchanged(checks, axis_fit, dimensions) ==
      (IF checks.axisymmetric_xy THEN 28 ELSE 0 - 20)
    + (IF checks.turnable_majority THEN 16 ELSE 0 - 8)
    + (IF checks.small_asymmetry_ok THEN 6 ELSE 0 - 6)
    + (IF checks.cylindrical_dominance THEN 0 - 15 ELSE 20)
    + (IF checks.circular_edge_support THEN 18 ELSE 0 - 10)
    + (IF checks.limited_complexity THEN 12 ELSE 0 - 20)
    + (IF checks.reasonable_aspect_ratio THEN 10 ELSE 0 - 12)
    + (IF ~axis_fit.available /\ xy_delta_small(dimensions) THEN 8 ELSE 0)

\* turning_score before the base shift and the clamp.
turning_raw_score(checks, axis_fit, dimensions) ==
      (IF checks.axisymmetric_xy THEN 28 ELSE 0 - 20)
    + (IF checks.turnable_majority THEN 16 ELSE 0 - 8)
    + (IF checks.small_asymmetry_ok THEN 6 ELSE 0 - 6)
    + (IF checks.cylindrical_dominance THEN 20 ELSE 0 - 15)
    + (IF checks.circular_edge_support THEN 18 ELSE 0 - 10)
    + (IF checks.limited_complexity THEN 12 ELSE 0 - 20)
    + (IF checks.reasonable_aspect_ratio THEN 10 ELSE 0 - 12)
    + (IF ~axis_fit.available /\ xy_delta_small(dimensions) THEN 8 ELSE 0)

turning_score_of(checks, axis_fit, dimensions) ==
    Clamp0_100(turning_raw_score(checks, axis_fit, dimensions) + 16)

\* A gate that looks at the score threshold alone.
strict_gate_by_score(checks, score) == score >= 66

\* A gate that leaves the aspect ratio out.
strict_gate_without_aspect_ratio(checks, score) ==
    /\ checks.axisymmetric_xy
    /\ checks.turnable_majority
    /\ checks.small_asymmetry_ok
    /\ checks.cylindrical_dominance
    /\ checks.circular_edge_support
    /\ checks.limited_complexity
    /\ score >= 66

\* strict_turnable: the seven checks and the score threshold.
strict_gate(checks, score) ==
    /\ checks.axisymmetric_xy
    /\ checks.turnable_majority
    /\ checks.small_asymmetry_ok
    /\ checks.cylindrical_dominance
    /\ checks.circular_edge_support
    /\ checks.reasonable_aspect_ratio
    /\ checks.limited_complexity
    /\ score >= 66

\* max(scores, key=scores.get): the first of milling, turning, printing that
\* has the highest score.  mill10 is in tenths of a point.
recommended_process_of(mill10, turning, printing) ==
    IF mill10 >= turning * 10 /\ mill10 >= printing * 10 THEN "3_axis_milling"
    ELSE IF turning >= printing THEN "turning"
    ELSE "3d_printing"

\* The stable descending sort of the three scores, without turning.
alternative_processes_of(mill10, printing) ==
    IF mill10 >= printing * 10 THEN << "3_axis_milling", "3d_printing" >>
    ELSE << "3d_printing", "3_axis_milling" >>

analyze_machinability(surface_types, edge_types, dimensions, axis_cues) ==
    LET axis_fit == compute_best_fit_axis(axis_cues)
        checks == strict_checks_of(surface_types, edge_types, dimensions, axis_fit)
        score == turning_score_of(checks, axis_fit, dimensions)
        mill10 == milling_score(surface_types, dimensions)
        printing == printing_score(surface_types, dimensions)
    IN  [ machinability |->
            [ milling_score |-> mill10,
              has_turning |-> TRUE,
              turning |-> [ score |-> score,
                            has_strict_turnable |-> TRUE,
                            strict_turnable |-> strict_gate(checks, score),
                            strict_checks |-> checks,
                            axis_analysis |-> axis_fit ],
              printing_score |-> printing,
              has_dimensions |-> FALSE,
              dimensions |-> dimensions ],
          dimensions |-> dimensions,
          recommended_process |-> recommended_process_of(mill10, score, printing),
          alternative_processes |-> alternative_processes_of(mill10, printing) ]

\* analyze_machinability without the OCP modules: the mock data.
mock_machinability ==
    [ machinability |->
        [ milling_score |-> 850,
          has_turning |-> TRUE,
          turning |-> [ score |-> 45,
                        has_strict_turnable |-> TRUE,
                        strict_turnable |-> FALSE,
                        strict_checks |-> << >>,
                        axis_analysis |-> compute_best_fit_axis(<< >>) ],
          printing_score |-> 95,
          has_dimensions |-> FALSE,
          dimensions |-> [ x_size |-> 1000, y_size |-> 750, z_size |-> 500 ] ],
      dimensions |-> [ x_size |-> 1000, y_size |-> 750, z_size |-> 500 ],
      recommended_process |-> "None",
      alternative_processes |-> << >> ]

(***************************************************************************)
(* capp_turning_planner.py: TurningProcessPlan                             *)
(***************************************************************************)
\* _get_turning_score, in tenths of a point: the turning score when the
\* analysis has one, the milling score otherwise.
get_turning_score(an) ==
    IF an.machinability.has_turning
    THEN an.machinability.turning.score * 10
    ELSE an.machinability.milling_score

\* A partial verdict that wants both the circular edges and the aspect ratio.
partial_turnable_wants_both(turning_score, strict_checks) ==
    IF DOMAIN strict_checks # {}
    THEN /\ turning_score >= 400
         /\ strict_checks.cylindrical_dominance
         /\ strict_checks.circular_edge_support
         /\ strict_checks.reasonable_aspect_ratio
    ELSE turning_score >= 450

\* self.partial_turnable: from the strict checks when the analysis has them,
\* from the score alone otherwise.  turning_score is in tenths of a point.
partial_turnable_of(turning_score, strict_checks) ==
    IF DOMAIN strict_checks # {}
    THEN /\ turning_score >= 400
         /\ strict_checks.cylindrical_dominance
         /\ \/ strict_checks.circular_edge_support
            \/ strict_checks.reasonable_aspect_ratio
    ELSE turning_score >= 450

\* TurningProcessPlan.__init__
new_plan(an, material_profile, machine_profile, tolerance_mm, surface_roughness_ra) ==
    LET turning_data == an.machinability.turning
        has_turning == an.machinability.has_turning
        turning_score == get_turning_score(an)
        strict_turnable ==
            IF has_turning /\ turning_data.has_strict_turnable
            THEN turning_data.strict_turnable
            ELSE turning_score >= 750
        strict_checks == IF has_turning THEN turning_data.strict_checks ELSE << >>
        partial_turnable == partial_turnable_of(turning_score, strict_checks)
    IN  [ material_profile |-> material_profile,
          machine_profile |-> machine_profile,
          tolerance_mm |-> tolerance_mm,
          surface_roughness_ra |-> surface_roughness_ra,
          turning_score |-> turning_score,
          strict_turnable |-> strict_turnable,
          partial_turnable |-> partial_turnable,
          is_machinable |-> strict_turnable \/ partial_turnable,
          operations |-> << >>,
          tools |-> << >>,
          ai_recommendations |-> "",
          has_feature_detection |-> FALSE,
          feature_detection |-> << >>,
          validation |-> << >> ]

\* _format_dimensions: the extents are read under analysis["machinability"],
\* with defaults 20, 20 and 50 mm and a floor of 0.1 mm.
format_dimensions(an) ==
    LET m == an.machinability
        x_size == Max(IF m.has_dimensions THEN m.dimensions.x_size ELSE 200, 1)
        y_size == Max(IF m.has_dimensions THEN m.dimensions.y_size ELSE 200, 1)
        z_size == Max(IF m.has_dimensions THEN m.dimensions.z_size ELSE 500, 1)
    IN  [ diameter |-> Max(x_size, y_size), length |-> z_size,
          x_size |-> x_size, y_size |-> y_size, z_size |-> z_size ]

\* A fallback to the slowest machine of the table.
machine_limits_or_slowest(machine_profile) ==
    IF machine_profile \in DOMAIN MACHINE_PROFILES
    THEN MACHINE_PROFILES[machine_profile]
    ELSE MACHINE_PROFILES["HMT CNC Lathe"]

machine_limits(machine_profile) ==
    IF machine_profile \in DOMAIN MACHINE_PROFILES
    THEN MACHINE_PROFILES[machine_profile]
    ELSE MACHINE_PROFILES[DEFAULT_MACHINE_PROFILE]

\* A mapping that detects a feature at a score of 3 or more only.
feature_result_high_only(score, reasons, label) ==
    IF score >= 3 THEN
        [ detected |-> TRUE, confidence |-> "high",
          reasons |-> SubSeq(reasons, 1, Min(3, Len(reasons))), label |-> label ]
    ELSE
        [ detected |-> FALSE, confidence |-> "low",
          reasons |-> IF reasons = << >> THEN << "no strong geometric evidence" >>
                      ELSE SubSeq(reasons, 1, Min(2, Len(reasons))),
          label |-> label ]

\* _feature_result
feature_result(score, reasons, label) ==
    IF score >= 3 THEN
        [ detected |-> TRUE, confidence |-> "high",
          reasons |-> SubSeq(reasons, 1, Min(3, Len(reasons))), label |-> label ]
    ELSE IF score = 2 THEN
        [ detected |-> TRUE, confidence |-> "medium",
          reasons |-> SubSeq(reasons, 1, Min(3, Len(reasons))), label |-> label ]
    ELSE
        [ detected |-> FALSE, confidence |-> "low",
          reasons |-> IF reasons = << >> THEN << "no strong geometric evidence" >>
                      ELSE SubSeq(reasons, 1, Min(2, Len(reasons))),
          label |-> label ]

\* _detect_features
detect_features(an, dimensions) ==
    LET surface == an.model_info.surface_types
        faces == Max(an.model_info.geometry_stats.faces, 1)
        edges == Max(an.model_info.geometry_stats.edges, 0)
        cyl == surface["Cylinder"]
        cone == surface["Cone"]
        torus == surface["Torus"]
        plane == surface["Plane"]
        t1 == cone > 0 /\ cyl >= 2
        t2 == 10 * edges >= 28 * faces /\ cyl >= 3
        t3 == 10 * dimensions.length >= 12 * Max(dimensions.diameter, 1)
        threading_score == (IF t1 THEN 2 ELSE 0) + (IF t2 THEN 1 ELSE 0)
                           + (IF t3 THEN 1 ELSE 0)
        threading_reasons == (IF t1 THEN << "cone + cylinders" >> ELSE << >>)
                             \o (IF t2 THEN << "edge density" >> ELSE << >>)
                             \o (IF t3 THEN << "length/diameter" >> ELSE << >>)
        g1 == torus > 0
        g2 == cyl >= 4 /\ plane >= 4 /\ 10 * edges >= 22 * faces
        g3 == an.cylindrical_faces >= 5
        grooving_score == (IF g1 THEN 2 ELSE 0) + (IF g2 THEN 1 ELSE 0)
                          + (IF g3 THEN 1 ELSE 0)
        grooving_reasons == (IF g1 THEN << "torus" >> ELSE << >>)
                            \o (IF g2 THEN << "cylinder-plane transitions" >> ELSE << >>)
                            \o (IF g3 THEN << "cylindrical face count" >> ELSE << >>)
    IN  [ threading |-> feature_result(threading_score, threading_reasons, "threading"),
          grooving |-> feature_result(grooving_score, grooving_reasons, "grooving") ]

\* _needs_finish_pass with strict comparisons.
needs_finish_pass_below(p) ==
    IF p.tolerance_mm # NoneVal /\ p.tolerance_mm < 50 THEN TRUE
    ELSE IF p.surface_roughness_ra # NoneVal /\ p.surface_roughness_ra < 160 THEN TRUE
    ELSE FALSE

\* _needs_finish_pass
needs_finish_pass(p) ==
    IF p.tolerance_mm # NoneVal /\ p.tolerance_mm <= 50 THEN TRUE
    ELSE IF p.surface_roughness_ra # NoneVal /\ p.surface_roughness_ra <= 160 THEN TRUE
    ELSE FALSE

surface_speeds(operation_type) ==
    CASE operation_type = "facing" -> 250
      [] operation_type = "rough" -> 200
      [] operation_type = "finish" -> 300
      [] operation_type = "boring" -> 180
      [] operation_type = "threading" -> 100
      [] operation_type = "grooving" -> 150
      [] operation_type = "parting" -> 120
      [] OTHER -> 200

\* int((sfm * 12) / (3.14159 * diameter_inches)) for a diameter in hundredths
\* of a mm: floor(base * factor * 30480000 / (314159 * d)), computed as
\* floor(floor(base * factor * 3048 * 100 * 100 / 314159) / d).
raw_rpm(base, factor, d) ==
    LET a == base * factor * 3048
        q0 == << a \div 314159, a % 314159 >>
        q2 == Times100(Times100(q0, 314159), 314159)
    IN  q2[1] \div d

\* _calculate_spindle_speed; diameter_mm is in hundredths of a mm.
calculate_spindle_speed(p, diameter_mm, operation_type) ==
    LET d == IF diameter_mm <= 0 THEN 2000 ELSE diameter_mm
        material_factor ==
            IF p.material_profile \in DOMAIN MATERIAL_SPEED_FACTORS
            THEN MATERIAL_SPEED_FACTORS[p.material_profile] ELSE 100
        rpm == raw_rpm(surface_speeds(operation_type), material_factor, d)
        machine_rpm_limit == machine_limits(p.machine_profile).max_rpm
    IN  Max(100, Min(machine_rpm_limit, rpm))

\* _estimate_turning_time, in tenths of a minute.  diameter and length are
\* in tenths of a mm, depth in hundredths of a mm, feed in hundredths.
estimate_turning_time(p, diameter_mm, length_mm, depth_mm, feed_mm_rev) ==
    IF feed_mm_rev = 0 \/ length_mm = 0 THEN 0
    ELSE
        LET passes == Max((diameter_mm * 5) \div depth_mm, 1)
            spindle_speed == calculate_spindle_speed(p, diameter_mm * 10, "rough")
            x == passes * length_mm
            den == spindle_speed * feed_mm_rev
            \* total_time > 100, for total_time = x * 10000 / den + (passes - 1) / 2
            over == \/ passes >= 202
                    \/ x > ((201 - passes) * den) \div 20000
        IN  IF over THEN 100
            ELSE 5 * (passes - 1) + RoundHalfEven(x * 100000, den)

Operation(name, type, spindle_speed, feed_rate, depth_of_cut, coolant, estimated_time) ==
    [ name |-> name, type |-> type, spindle_speed |-> spindle_speed,
      feed_rate |-> feed_rate, depth_of_cut |-> depth_of_cut, coolant |-> coolant,
      estimated_time |-> estimated_time ]

\* A numbering that starts at 0.
add_operation_from_zero(operations, op) ==
    Append(operations,
           [ operation_id |-> Len(operations), name |-> op.name, type |-> op.type,
             spindle_speed |-> op.spindle_speed, feed_rate |-> op.feed_rate,
             depth_of_cut |-> op.depth_of_cut, coolant |-> op.coolant,
             estimated_time |-> op.estimated_time ])

\* An add_operation that puts the row in front of the list.
add_operation_in_front(operations, op) ==
    << [ operation_id |-> Len(operations) + 1, name |-> op.name, type |-> op.type,
         spindle_speed |-> op.spindle_speed, feed_rate |-> op.feed_rate,
         depth_of_cut |-> op.depth_of_cut, coolant |-> op.coolant,
         estimated_time |-> op.estimated_time ] >> \o operations

\* add_operation: the row gets operation_id = len(operations) + 1.
add_operation(operations, op) ==
    Append(operations,
           [ operation_id |-> Len(operations) + 1, name |-> op.name, type |-> op.type,
             spindle_speed |-> op.spindle_speed, feed_rate |-> op.feed_rate,
             depth_of_cut |-> op.depth_of_cut, coolant |-> op.coolant,
             estimated_time |-> op.estimated_time ])

\* The spindle speed of the threading operation.
threading_spindle_speed(p, diameter) ==
    calculate_spindle_speed(p, diameter * 10, "threading") \div 2

\* The operations generate_operations passes to add_operation, in the order
\* of the calls: each optional one only when its condition holds.
operation_rows(p, an, features) ==
    LET dimensions == format_dimensions(an)
        diameter == dimensions.diameter
        length == dimensions.length
    IN  << Operation("Face & Center", "facing",
                     calculate_spindle_speed(p, diameter * 10, "facing"),
                     15, 100, "flood", 20) >>
        \o (IF diameter > 200
            THEN << Operation("Rough Turning", "turning",
                              calculate_spindle_speed(p, diameter * 8, "rough"),
                              20, 200, "flood",
                              estimate_turning_time(p, diameter, length, 200, 20)) >>
            ELSE << >>)
        \o << Operation("Finish Turning", "turning",
                        calculate_spindle_speed(p, diameter * 10, "finish"),
                        10, 50, "flood",
                        estimate_turning_time(p, diameter, length, 50, 10)) >>
        \o (IF needs_finish_pass(p)
            THEN << Operation("Fine Finish Pass", "finishing",
                              calculate_spindle_speed(p, diameter * 10, "finish"),
                              5, 20, "flood",
                              estimate_turning_time(p, diameter, length, 20, 5)) >>
            ELSE << >>)
        \o (IF an.cylindrical_faces > 2
            THEN << Operation("Boring", "boring",
                              calculate_spindle_speed(p, diameter * 5, "boring"),
                              12, 100, "flood", 30) >>
            ELSE << >>)
        \o (IF features.threading.detected
            THEN << Operation("Threading", "threading",
                              threading_spindle_speed(p, diameter),
                              50, 50, "light", 25) >>
            ELSE << >>)
        \o (IF features.grooving.detected
            THEN << Operation("Grooving", "grooving",
                              calculate_spindle_speed(p, diameter * 7, "grooving"),
                              15, 80, "flood", 15) >>
            ELSE << >>)
        \o << Operation("Parting Off", "parting",
                        calculate_spindle_speed(p, diameter * 9, "parting"),
                        8, diameter * 5, "light", 10) >>

\* The successive calls of add_operation on the local list `operations`.
RECURSIVE add_operations(_, _)
add_operations(operations, rows) ==
    IF rows = << >> THEN operations
    ELSE add_operations(add_operation(operations, Head(rows)), Tail(rows))

\* A synthesis that stops before the parting operation.
synthesize_without_parting(p, an, features) ==
    LET rows == operation_rows(p, an, features)
    IN  add_operations(<< >>, SubSeq(rows, 1, Len(rows) - 1))

\* The operation list built by generate_operations for a machinable plan.
synthesize_operations(p, an, features) ==
    add_operations(<< >>, operation_rows(p, an, features))

\* A generate_operations without the early return.
generate_operations_ungated(p, an) ==
    LET features == detect_features(an, format_dimensions(an))
        operations == synthesize_operations(p, an, features)
    IN  << operations,
           [ p EXCEPT !.has_feature_detection = TRUE,
                      !.feature_detection = features,
                      !.operations = operations ] >>

\* generate_operations: << the returned list, the plan afterwards >>.
generate_operations(p, an) ==
    IF ~p.is_machinable THEN << << >>, p >>
    ELSE
        LET features == detect_features(an, format_dimensions(an))
            operations == synthesize_operations(p, an, features)
        IN  << operations,
               [ p EXCEPT !.has_feature_detection = TRUE,
                          !.feature_detection = features,
                          !.operations = operations ] >>

\* The catalog of generate_tool_list, in order, with its tool_id values.
tool_catalog ==
    << [ tool_id |-> 1, name |-> "Facing Insert" ],
       [ tool_id |-> 2, name |-> "Turning Insert" ],
       [ tool_id |-> 3, name |-> "Boring Insert" ],
       [ tool_id |-> 4, name |-> "Threading Insert" ],
       [ tool_id |-> 5, name |-> "Grooving Insert" ],
       [ tool_id |-> 6, name |-> "Parting Blade" ] >>

\* The names of the operations instead of their types.
op_names_of(operations) == { operations[i].name : i \in DOMAIN operations }

\* op_types = {op.get("type") for op in self.operations}
op_types_of(operations) == { operations[i].type : i \in DOMAIN operations }

\* A filter that keeps the whole catalog.
tool_kept_always(name, op_types) == TRUE

\* The filter of generate_tool_list: a catalog entry is dropped only when it
\* is the threading or the grooving insert and no such operation exists.
tool_kept(name, op_types) ==
    /\ ~(name = "Threading Insert" /\ "threading" \notin op_types)
    /\ ~(name = "Grooving Insert" /\ "grooving" \notin op_types)

RECURSIVE filter_tools(_, _)
filter_tools(tools, op_types) ==
    IF tools = << >> THEN << >>
    ELSE IF tool_kept(Head(tools).name, op_types)
         THEN << Head(tools) >> \o filter_tools(Tail(tools), op_types)
         ELSE filter_tools(Tail(tools), op_types)

\* The tools with the ids they had in the catalog.
catalog_ids_kept(tools) == tools

\* for idx, tool in enumerate(filtered, start=1): tool["tool_id"] = idx
renumber_tools(tools) ==
    [ i \in DOMAIN tools |-> [ tools[i] EXCEPT !.tool_id = i ] ]

\* generate_tool_list
generate_tool_list(p) ==
    LET op_types == op_types_of(p.operations)
        filtered == filter_tools(tool_catalog, op_types)
        with_fine == IF "finishing" \in op_types
                     THEN Append(filtered, [ tool_id |-> Len(filtered) + 1,
                                             name |-> "Fine Finishing Insert" ])
                     ELSE filtered
    IN  renumber_tools(with_fine)

Message(level, title) == [ level |-> level, title |-> title ]

severity(level) == CASE level = "pass" -> 0 [] level = "warn" -> 1 [] level = "fail" -> 2

\* A worst level that takes a warning for a pass.
worst_level_without_warn(messages) ==
    IF \E i \in DOMAIN messages : messages[i].level = "fail" THEN "fail" ELSE "pass"

\* max(messages, key=severity)["level"]: the level of the first message of
\* the highest severity; "pass" for an empty list.
worst_level(messages) ==
    IF messages = << >> THEN "pass"
    ELSE LET top == CHOOSE i \in DOMAIN messages :
                        \A j \in DOMAIN messages :
                            severity(messages[j].level) <= severity(messages[i].level)
         IN  messages[top].level

\* estimated_kw > usable_power_kw for the first "Rough Turning" operation:
\* 3.14159 * d * rpm * f * ap / 1000 * spec_power > max_power_kw * 0.85, i.e.
\* A power check against the full rated power of the machine.
power_exceeded_at_rated_power(p, dimensions, limits) ==
    LET rough == { i \in DOMAIN p.operations : p.operations[i].name = "Rough Turning" }
    IN  IF rough = {} THEN FALSE
        ELSE
            LET op == p.operations[CHOOSE i \in rough : \A j \in rough : i <= j]
                d == Max(dimensions.diameter, 10)
                spec_power ==
                    IF p.material_profile \in DOMAIN SPECIFIC_POWER_KW_PER_CM3_MIN
                    THEN SPECIFIC_POWER_KW_PER_CM3_MIN[p.material_profile] ELSE 50
            IN  ~FracGE(1000000000, 314159 * op.feed_rate * op.depth_of_cut,
                        d * op.spindle_speed * spec_power, limits.max_power_kw * 1000000)

\* (d * rpm * spec) / (power * 850000) > 10^9 / (314159 * f * ap) in the units
\* of the model (d >= 1 mm).
power_exceeded(p, dimensions, limits) ==
    LET rough == { i \in DOMAIN p.operations : p.operations[i].name = "Rough Turning" }
    IN  IF rough = {} THEN FALSE
        ELSE
            LET op == p.operations[CHOOSE i \in rough : \A j \in rough : i <= j]
                d == Max(dimensions.diameter, 10)
                spec_power ==
                    IF p.material_profile \in DOMAIN SPECIFIC_POWER_KW_PER_CM3_MIN
                    THEN SPECIFIC_POWER_KW_PER_CM3_MIN[p.material_profile] ELSE 50
            IN  ~FracGE(1000000000, 314159 * op.feed_rate * op.depth_of_cut,
                        d * op.spindle_speed * spec_power, limits.max_power_kw * 850000)

\* The messages of run_validation_checks, in the order they are appended.
validation_messages(p, an) ==
    LET dimensions == format_dimensions(an)
        limits == machine_limits(p.machine_profile)
        threading_detected == p.has_feature_detection /\ p.feature_detection.threading.detected
        grooving_detected == p.has_feature_detection /\ p.feature_detection.grooving.detected
        op_types == op_types_of(p.operations)
        has_threading_op == "threading" \in op_types
        has_grooving_op == "grooving" \in op_types
        has_fine_finish == "finishing" \in op_types
        near_limit == { i \in DOMAIN p.operations :
                          p.operations[i].spindle_speed >= (limits.max_rpm * 95) \div 100 }
    IN  << Message(IF has_threading_op = threading_detected THEN "pass" ELSE "fail",
                   "Threading Rule"),
           Message(IF has_grooving_op = grooving_detected THEN "pass" ELSE "fail",
                   "Grooving Rule"),
           Message(IF needs_finish_pass(p) = has_fine_finish THEN "pass" ELSE "fail",
                   "Tolerance/Ra Rule"),
           Message(IF dimensions.diameter > limits.max_turning_diameter_mm
                   THEN "fail" ELSE "pass", "Machine Diameter Limit"),
           Message(IF dimensions.length > limits.max_turning_length_mm
                   THEN "fail" ELSE "pass", "Machine Length Limit"),
           Message(IF near_limit # {} THEN "warn" ELSE "pass", "Spindle Speed Margin"),
           Message(IF power_exceeded(p, dimensions, limits) THEN "warn" ELSE "pass",
                   "Spindle Power Check") >>

\* run_validation_checks
run_validation_checks(p, an) ==
    LET messages == validation_messages(p, an)
    IN  [ status |-> worst_level(messages), messages |-> messages ]

\* An advisory step that keeps no trace of an OllamaError.
generate_ai_recommendations_silent(p, outcome) ==
    IF ~p.is_machinable THEN << "error: not suitable for turning", p.ai_recommendations >>
    ELSE IF outcome = "error" THEN << "", p.ai_recommendations >>
    ELSE LET text == CASE outcome = "text" -> "response"
                       [] outcome = "empty" -> "empty response notice"
         IN  << text, text >>

\* generate_ai_recommendations: << the returned value, self.ai_recommendations >>
\* for the outcome of query_ollama (a text, an empty text, an OllamaError).
generate_ai_recommendations(p, outcome) ==
    IF ~p.is_machinable THEN << "error: not suitable for turning", p.ai_recommendations >>
    ELSE LET text == CASE outcome = "text" -> "response"
                       [] outcome = "empty" -> "empty response notice"
                       [] outcome = "error" -> "Error: OllamaError"
         IN  << text, text >>

(***************************************************************************)
(* step_analyzer.py: analyze_step_file                                     *)
(***************************************************************************)
NoAnalysis == [ success |-> FALSE ]

\* get_model_description: the face and edge counts and the surface types.
model_description(surface_types, edge_types) ==
    [ surface_types |-> surface_types,
      geometry_stats |-> [ faces |-> sum_values(surface_types),
                           edges |-> sum_values(edge_types) ] ]

mock_model_description ==
    [ surface_types |-> [ k \in SurfaceKinds |->
                            CASE k = "Plane" -> 225 [] k = "Cylinder" -> 178 [] OTHER -> 0 ],
      geometry_stats |-> [ faces |-> 403, edges |-> 1878 ] ]

\* The dict analyze_step_file returns.  source: "ocp" (the OCP libraries read
\* the file), "demo" (no OCP, demo mode allowed: mock data), "no_ocp" (no OCP,
\* demo mode not allowed), "no_file" (no STEP file found).
analyze_step_file(i) ==
    IF i.source \in { "no_ocp", "no_file" } THEN NoAnalysis
    ELSE
        LET model_info == IF i.source = "demo" THEN mock_model_description
                          ELSE model_description(i.surface_types, i.edge_types)
            m == IF i.source = "demo" THEN mock_machinability
                 ELSE analyze_machinability(i.surface_types, i.edge_types,
                                            i.dimensions, i.axis_cues)
        IN  [ success |-> TRUE,
              cylindrical_faces |-> model_info.surface_types["Cylinder"],
              model_info |-> model_info,
              machinability |-> m.machinability,
              dimensions |-> m.dimensions,
              recommended_process |-> m.recommended_process,
              alternative_processes |-> m.alternative_processes ]

\* An analysis dict a caller of the TurningProcessPlan class hands in: the
\* analyzer's dict, in its present shape or in the older one ("legacy": the
\* turning entry has a score only, no strict_turnable and no strict_checks),
\* with or without the extents under analysis["machinability"]["dimensions"],
\* where _format_dimensions looks for them.
caller_analysis(i) ==
    LET a == analyze_step_file(i)
        t == a.machinability.turning
        turning == IF i.shape = "legacy"
                   THEN [ t EXCEPT !.has_strict_turnable = FALSE, !.strict_turnable = FALSE,
                                   !.strict_checks = << >> ]
                   ELSE t
    IN  [ a EXCEPT !.machinability.turning = turning,
                   !.machinability.has_dimensions = i.dims_under_machinability ]

(***************************************************************************)
(* The runs: generate_turning_plan, and a caller of the class itself       *)
(***************************************************************************)
NoPlan == [ is_machinable |-> FALSE ]
NoReturn == [ method |-> "none", value |-> << >> ]
NoResult == [ kind |-> "none" ]

Pipeline == inp.entry = "generate_turning_plan"

\* analysis = analyze_step_file(step_file); a failed analysis is returned as
\* an error result.
Analyze ==
    /\ pc = "start"
    /\ Pipeline
    /\ analysis' = analyze_step_file(inp)
    /\ IF analysis'.success
       THEN pc' = "analyzed" /\ result' = result
       ELSE pc' = "done" /\ result' = [ kind |-> "analysis_error", success |-> FALSE ]
    /\ UNCHANGED <<inp, plan, ret>>
    /\ UNCHANGED gui

\* A caller of the class has an analysis dict of its own.
SupplyAnalysis ==
    /\ pc = "start"
    /\ ~Pipeline
    /\ analysis' = caller_analysis(inp)
    /\ pc' = "analyzed"
    /\ UNCHANGED <<inp, plan, ret, result>>
    /\ UNCHANGED gui

\* plan = TurningProcessPlan(analysis, ...)
CreatePlan ==
    /\ pc = "analyzed"
    /\ plan' = new_plan(analysis, inp.material_profile, inp.machine_profile,
                        inp.tolerance_mm, inp.surface_roughness_ra)
    /\ pc' = "planned"
    /\ UNCHANGED <<inp, analysis, ret, result>>
    /\ UNCHANGED gui

\* A list of failing checks that leaves limited_complexity out.
failing_checks_but_complexity(an) ==
    LET sc == an.machinability.turning.strict_checks
    IN  { k \in DOMAIN sc : ~sc[k] /\ k # "limited_complexity" }

failing_checks(an) ==
    LET sc == an.machinability.turning.strict_checks
    IN  { k \in DOMAIN sc : ~sc[k] }

\* if not plan.is_machinable: return { "success": False, ... }
Reject ==
    /\ pc = "planned"
    /\ Pipeline
    /\ ~plan.is_machinable
    /\ result' = [ kind |-> "not_machinable",
                   success |-> FALSE,
                   turning_score |-> plan.turning_score,
                   strict_turnable |-> FALSE,
                   partial_turnable |-> FALSE,
                   turning_scope |-> "none",
                   recommended_process |->
                       IF analysis.recommended_process = "None" THEN "3_axis_milling"
                       ELSE analysis.recommended_process,
                   alternative_processes |-> analysis.alternative_processes,
                   turning_limitations |-> failing_checks(analysis) ]
    /\ pc' = "done"
    /\ UNCHANGED <<inp, analysis, plan, ret>>
    /\ UNCHANGED gui

\* plan.generate_operations(); generate_turning_plan calls it on a machinable
\* plan only, a caller of the class on any plan.
GenerateOperations ==
    /\ pc = "planned"
    /\ Pipeline => plan.is_machinable
    /\ LET r == generate_operations(plan, analysis)
       IN  /\ ret' = [ method |-> "generate_operations", value |-> r[1] ]
           /\ plan' = r[2]
    /\ pc' = "operations"
    /\ UNCHANGED <<inp, analysis, result>>
    /\ UNCHANGED gui

\* plan.generate_tool_list()
GenerateToolList ==
    /\ pc = "operations"
    /\ LET tools == generate_tool_list(plan)
       IN  /\ plan' = [ plan EXCEPT !.tools = tools ]
           /\ ret' = [ method |-> "generate_tool_list", value |-> tools ]
    /\ pc' = "tools"
    /\ UNCHANGED <<inp, analysis, result>>
    /\ UNCHANGED gui

\* plan.run_validation_checks()
RunValidationChecks ==
    /\ pc = "tools"
    /\ LET v == run_validation_checks(plan, analysis)
       IN  /\ plan' = [ plan EXCEPT !.validation = v ]
           /\ ret' = [ method |-> "run_validation_checks", value |-> v ]
    /\ pc' = "validated"
    /\ UNCHANGED <<inp, analysis, result>>
    /\ UNCHANGED gui

\* if with_ai: plan.generate_ai_recommendations()
GenerateAIRecommendations ==
    /\ pc = "validated"
    /\ inp.with_ai
    /\ LET r == generate_ai_recommendations(plan, inp.ai_outcome)
       IN  /\ ret' = [ method |-> "generate_ai_recommendations", value |-> r[1] ]
           /\ plan' = [ plan EXCEPT !.ai_recommendations = r[2] ]
    /\ pc' = "advised"
    /\ UNCHANGED <<inp, analysis, result>>
    /\ UNCHANGED gui

\* return { "success": True, ... }
ReturnPlan ==
    /\ \/ pc = "validated" /\ ~inp.with_ai
       \/ pc = "advised"
    /\ Pipeline
    /\ result' = [ kind |-> "plan",
                   success |-> TRUE,
                   strict_turnable |-> plan.strict_turnable,
                   partial_turnable |-> plan.partial_turnable,
                   turning_scope |-> IF plan.strict_turnable THEN "full" ELSE "partial",
                   turning_score |-> plan.turning_score,
                   recommended_process |-> analysis.recommended_process,
                   alternative_processes |-> analysis.alternative_processes,
                   turning_limitations |-> failing_checks(analysis),
                   operations |-> plan.operations,
                   tools |-> plan.tools,
                   ai_recommendations |-> plan.ai_recommendations,
                   validation |-> plan.validation ]
    /\ pc' = "done"
    /\ UNCHANGED <<inp, analysis, plan, ret>>
    /\ UNCHANGED gui

\* The caller of the class is done with the plan.
CallerDone ==
    /\ \/ pc = "validated" /\ ~inp.with_ai
       \/ pc = "advised"
    /\ ~Pipeline
    /\ pc' = "done"
    /\ UNCHANGED <<inp, analysis, plan, ret, result>>
    /\ UNCHANGED gui

(***************************************************************************)
(* The desktop application: the Analyze button and its worker threads      *)
(***************************************************************************)
MaxWorkers == 3   \* analysis threads started in one behaviour: at most MaxWorkers

Workers == 1..MaxWorkers

\* self.selected_file = None
NoFile == "None"

\* CAPPApplication.__init__; no thread has been created.
GuiInit ==
    /\ selected_file = NoFile
    /\ is_processing = FALSE
    /\ analysis_result = "None"
    /\ status = "Ready"
    /\ dialog = "none"
    /\ worker = [ w \in Workers |-> "unborn" ]

\* What the call of generate_turning_plan in the worker can come to: a dict
\* with success true, a dict with success false, an exception.
CallOutcomes == { "plan", "failure", "exception" }

\* _browse_file: the dialog returns a path or is cancelled.
browse_file ==
    /\ \E file_path \in { "", "part.step" } :
           IF file_path # ""
           THEN selected_file' = file_path /\ status' = "Ready - selected"
           ELSE UNCHANGED <<selected_file, status>>
    /\ UNCHANGED <<is_processing, analysis_result, dialog, worker>>
    /\ UNCHANGED <<pc, inp, analysis, plan, ret, result>>

\* _clear_selection
clear_selection ==
    /\ selected_file' = NoFile
    /\ status' = "Ready"
    /\ UNCHANGED <<is_processing, analysis_result, dialog, worker>>
    /\ UNCHANGED <<pc, inp, analysis, plan, ret, result>>

\* _analyze_file, the command of the Analyze button, in the Tk main thread:
\* the two guards, then threading.Thread(target=self._run_analysis).start().
analyze_file ==
    /\ IF selected_file = NoFile
       THEN dialog' = "Please select a STEP file first" /\ worker' = worker
       ELSE IF is_processing
       THEN dialog' = "Analysis already in progress..." /\ worker' = worker
       ELSE /\ \E w \in Workers :
                  /\ worker[w] = "unborn"
                  /\ \A v \in Workers : v < w => worker[v] # "unborn"
                  /\ worker' = [ worker EXCEPT ![w] = "started" ]
            /\ dialog' = dialog
    /\ UNCHANGED <<selected_file, is_processing, analysis_result, status>>
    /\ UNCHANGED <<pc, inp, analysis, plan, ret, result>>

\* _run_analysis, first statements, in the worker thread:
\* self.is_processing = True; self.status_var.set("Analyzing...")
run_analysis_begin(w) ==
    /\ worker[w] = "started"
    /\ is_processing' = TRUE
    /\ status' = "Analyzing..."
    /\ worker' = [ worker EXCEPT ![w] = "in_try" ]
    /\ UNCHANGED <<selected_file, analysis_result, dialog>>
    /\ UNCHANGED <<pc, inp, analysis, plan, ret, result>>

\* _run_analysis, the try block: Path(self.selected_file) raises when the
\* selection was cleared; otherwise generate_turning_plan is called and its
\* outcome is reported.
run_analysis_try(w) ==
    /\ worker[w] = "in_try"
    /\ \E outcome \in CallOutcomes :
           IF selected_file = NoFile \/ outcome = "exception"
           THEN /\ status' = "Error"
                /\ dialog' = "Exception"
                /\ analysis_result' = analysis_result
           ELSE IF outcome = "plan"
           THEN /\ analysis_result' = "plan"
                /\ status' = "Complete"
                /\ dialog' = "Success"
           ELSE /\ status' = "Failed"
                /\ dialog' = "Analysis Failed"
                /\ analysis_result' = analysis_result
    /\ worker' = [ worker EXCEPT ![w] = "in_finally" ]
    /\ UNCHANGED <<selected_file, is_processing>>
    /\ UNCHANGED <<pc, inp, analysis, plan, ret, result>>

\* _run_analysis, finally: self.is_processing = False; the thread ends.
run_analysis_finally(w) ==
    /\ worker[w] = "in_finally"
    /\ is_processing' = FALSE
    /\ worker' = [ worker EXCEPT ![w] = "finished" ]
    /\ UNCHANGED <<selected_file, analysis_result, status, dialog>>
    /\ UNCHANGED <<pc, inp, analysis, plan, ret, result>>

RunAnalysisBegin == \E w \in Workers : run_analysis_begin(w)
RunAnalysisTry == \E w \in Workers : run_analysis_try(w)
RunAnalysisFinally == \E w \in Workers : run_analysis_finally(w)

\* The events of the Tk main loop and the steps of the worker threads, in
\* any interleaving.
NextGui ==
    \/ browse_file
    \/ clear_selection
    \/ analyze_file
    \/ RunAnalysisBegin
    \/ RunAnalysisTry
    \/ RunAnalysisFinally

Next ==
    \/ Analyze
    \/ SupplyAnalysis
    \/ CreatePlan
    \/ Reject
    \/ GenerateOperations
    \/ GenerateToolList
    \/ RunValidationChecks
    \/ GenerateAIRecommendations
    \/ ReturnPlan
    \/ CallerDone

InitWith(inputs) ==
    /\ inp \in inputs
    /\ pc = "start"
    /\ analysis = NoAnalysis
    /\ plan = NoPlan
    /\ ret = NoReturn
    /\ result = NoResult
    /\ GuiInit

(***************************************************************************)
(* The inputs of the runs                                                  *)
(***************************************************************************)
MaxCylinder == 5   \* cylinder faces of a digest: 0..MaxCylinder
MaxCues == 2       \* axis cues of a digest: at most MaxCues

Surfaces(plane, cyl, cone, torus, bspline) ==
    [ k \in SurfaceKinds |->
        CASE k = "Plane" -> plane
          [] k = "Cylinder" -> cyl
          [] k = "Cone" -> cone
          [] k = "Torus" -> torus
          [] k = "BSplineSurface" -> bspline
          [] OTHER -> 0 ]

EdgeCounts(line, circle) == [ Line |-> line, Circle |-> circle, Other |-> 0 ]

Extents(x, y, z) == [ x_size |-> x, y_size |-> y, z_size |-> z ]

\* Cue directions: the z axis and its reverse, the x axis, and two axes
\* tilted 12.7 degrees off z (outside the 8 degree cone, inside the 15 degree one).
CueDirs == { <<0, 0, 0 - 41>>, <<41, 0, 0>>, <<0, 9, 40>>, <<0, 0 - 9, 40>> }

CueLists == UNION { [ 1..n -> CueDirs ] : n \in 0..MaxCues }

\* One cue per cylindrical or conical face and per circular edge at most
\* (a face or edge whose axis cannot be read is skipped).
cues_fit(i) ==
    Len(i.axis_cues) <= i.surface_types["Cylinder"] + i.surface_types["Cone"]
                        + i.edge_types["Circle"]

BaseInput ==
    [ entry |-> "generate_turning_plan", source |-> "ocp", shape |-> "analyzer",
      dims_under_machinability |-> FALSE,
      surface_types |-> Surfaces(4, 3, 1, 0, 0),
      edge_types |-> EdgeCounts(20, 6),
      dimensions |-> Extents(200, 200, 500),
      axis_cues |-> << <<0, 0, 0 - 41>> >>,
      material_profile |-> DEFAULT_MATERIAL_PROFILE,
      machine_profile |-> DEFAULT_MACHINE_PROFILE,
      tolerance_mm |-> NoneVal, surface_roughness_ra |-> NoneVal,
      with_ai |-> FALSE, ai_outcome |-> "text" ]

ZeroDigestInput ==
    [ BaseInput EXCEPT !.surface_types = Surfaces(0, 0, 0, 0, 0),
                       !.edge_types = EdgeCounts(0, 0),
                       !.dimensions = Extents(0, 0, 0),
                       !.axis_cues = << >> ]

\* Runs of every kind: a failed analysis, the demo data, a turnable and a
\* non-turnable part, through generate_turning_plan and through the class,
\* with and without the advisory step and with each outcome of the LLM call.
CommonInputs ==
    { [ BaseInput EXCEPT !.source = src ] : src \in { "no_ocp", "no_file" } }
    \cup { [ b EXCEPT !.entry = e, !.source = src, !.with_ai = TRUE, !.ai_outcome = o ] :
             b \in { BaseInput, ZeroDigestInput },
             e \in { "generate_turning_plan", "TurningProcessPlan" },
             src \in { "ocp", "demo" },
             o \in { "text", "empty", "error" } }
    \cup { [ b EXCEPT !.entry = e, !.source = src ] :
             b \in { BaseInput, ZeroDigestInput },
             e \in { "generate_turning_plan", "TurningProcessPlan" },
             src \in { "ocp", "demo" } }

\* The digests of the gate: every count and ratio of the seven checks on
\* both sides of its threshold.
GateExtents ==
    { Extents(200, 200, 500), Extents(200, 200, 30), Extents(1000, 300, 6000),
      Extents(0, 0, 0) }

\* Digests of 20 faces of which 12 are cylinders (ratio 0.6) and none is
\* complex, with 9 circular edges of 30 or 18 of 60 (ratio 0.3), one axis
\* cue repeated 20 times and the aspect ratio 3.0, through
\* generate_turning_plan and through the class with the extents where
\* _format_dimensions reads them.
ScenarioInputs ==
    { [ BaseInput EXCEPT !.entry = ed[1], !.dims_under_machinability = ed[2],
                         !.surface_types = Surfaces(8 - cone, 12, cone, 0, 0),
                         !.edge_types = EdgeCounts(7 * n, 3 * n),
                         !.dimensions = ext,
                         !.axis_cues = [ k \in 1..20 |-> v ] ] :
        ed \in { << "generate_turning_plan", FALSE >>, << "TurningProcessPlan", TRUE >> },
        cone \in { 0, 1 }, n \in { 3, 6 },
        ext \in { Extents(200, 200, 600), Extents(1000, 1000, 3000),
                  Extents(500, 1000, 3000) },
        v \in { <<0, 0, 0 - 41>>, <<0, 9, 40>> } }

GateInputs ==
    { i \in { [ BaseInput EXCEPT !.entry = es[1], !.shape = es[2],
                                 !.surface_types = Surfaces(plane, cyl, cone, 0, bspline),
                                 !.edge_types = EdgeCounts(20, circle),
                                 !.dimensions = ext,
                                 !.axis_cues = cues ] :
                es \in { << "generate_turning_plan", "analyzer" >>,
                         << "TurningProcessPlan", "legacy" >> },
                plane \in { 0, 30 }, cyl \in 0..MaxCylinder, cone \in { 0, 1 },
                bspline \in { 0, 60 }, circle \in { 0, 1, 6 },
                ext \in GateExtents, cues \in CueLists } : cues_fit(i) }
    \cup { i \in { [ BaseInput EXCEPT !.entry = es[1], !.shape = es[2],
                                      !.surface_types = Surfaces(plane, 3, cone, 0, 60),
                                      !.edge_types = EdgeCounts(20, circle),
                                      !.dimensions = ext,
                                      !.axis_cues = cues ] :
                     es \in { << "generate_turning_plan", "analyzer" >>,
                              << "TurningProcessPlan", "legacy" >> },
                     plane \in 1..2, cone \in { 0, 1 }, circle \in { 0, 6 },
                     ext \in GateExtents, cues \in CueLists } : cues_fit(i) }
    \cup ScenarioInputs
    \cup { [ ZeroDigestInput EXCEPT !.entry = es[1], !.shape = es[2], !.dimensions = ext ] :
             es \in { << "generate_turning_plan", "analyzer" >>,
                      << "TurningProcessPlan", "analyzer" >>,
                      << "TurningProcessPlan", "legacy" >> },
             ext \in GateExtents \cup { Extents(0, 0, 500), Extents(200, 0, 0) } }
    \cup CommonInputs

\* The requests of the planner: every material with the default machine,
\* every machine with the default material (an unknown name of each), and
\* the fastest and the slowest material on the fastest and the slowest machine.
Materials == DOMAIN MATERIAL_SPEED_FACTORS \cup { "Unobtainium" }
Machines == DOMAIN MACHINE_PROFILES \cup { "Unknown Lathe" }

Profiles ==
    { << m, DEFAULT_MACHINE_PROFILE >> : m \in Materials }
    \cup { << DEFAULT_MATERIAL_PROFILE, m >> : m \in Machines }
    \cup { << m, l >> : m \in { "SS316 / 316L", "Brass (CW614N / CuZn39Pb3)" },
                        l \in { "HMT CNC Lathe", "Mazak QUICK TURN Series" } }

\* << tolerance, Ra >> targets: none, each target alone, both, and both
\* just below and just above the thresholds of 0.05 mm and Ra 1.6.
Targets ==
    { << NoneVal, NoneVal >>, << 30, NoneVal >>, << 200, 500 >>, << NoneVal, 160 >>,
      << 50, 500 >>, << 51, 161 >> }

\* Diameters 0 (floored to 0.1), 20, 20.1, 100 and 300 mm; lengths 50 and 600 mm.
PlanExtents ==
    { Extents(x, x, z) : x \in { 0, 200, 201, 1000, 3000 }, z \in { 500, 6000 } }

\* Diameters 1100 and 1500 mm, at which roughing at the lowest spindle speed
\* asks for more than 85% of the power of some machines.
HeavyExtents == { Extents(11000, 11000, 6000), Extents(15000, 15000, 6000) }

PlanInputs ==
    { [ BaseInput EXCEPT !.entry = "TurningProcessPlan",
                         !.dims_under_machinability = TRUE,
                         !.surface_types = Surfaces(4, cyl, cone, torus, 0),
                         !.dimensions = ext,
                         !.material_profile = pr[1], !.machine_profile = pr[2],
                         !.tolerance_mm = tg[1], !.surface_roughness_ra = tg[2] ] :
        cyl \in 0..MaxCylinder, cone \in { 0, 1 }, torus \in { 0, 1 },
        ext \in PlanExtents, pr \in Profiles, tg \in Targets }
    \cup { [ BaseInput EXCEPT !.entry = "TurningProcessPlan",
                              !.dims_under_machinability = TRUE,
                              !.dimensions = ext,
                              !.material_profile = pr[1], !.machine_profile = pr[2] ] :
             ext \in HeavyExtents, pr \in Profiles }
    \cup { [ BaseInput EXCEPT !.surface_types = Surfaces(4, cyl, cone, torus, 0),
                              !.material_profile = pr[1], !.machine_profile = pr[2],
                              !.tolerance_mm = tg[1], !.surface_roughness_ra = tg[2] ] :
             cyl \in 0..MaxCylinder, cone \in { 0, 1 }, torus \in { 0, 1 },
             pr \in Profiles, tg \in Targets }
    \cup CommonInputs

SpecGate == InitWith(GateInputs) /\ [][Next]_vars
SpecPlan == InitWith(PlanInputs) /\ [][Next]_vars

\* The desktop application alone; no planner run is in the state.
SpecGui == InitWith({ BaseInput }) /\ [][NextGui]_vars

(***************************************************************************)
(* Properties                                                              *)
(***************************************************************************)
\* The state right after plan.generate_operations() returned.
OperationsReturned == ret.method = "generate_operations"

HasOp(type) == \E k \in DOMAIN plan.operations : plan.operations[k].type = type

HasTool(name) == \E k \in DOMAIN plan.tools : plan.tools[k].name = name

\* The feature detector's verdict stored on the plan by generate_operations.
Detected(feature) ==
    plan.has_feature_detection /\ plan.feature_detection[feature].detected

\* C1: for a machinable plan, the list generate_operations returns carries the
\* operation_id values 1, 2, ..., N in list order (no gap, no duplicate).
C1_OperationIdsAreListPositions ==
    (OperationsReturned /\ plan.is_machinable) =>
        /\ \A k \in DOMAIN ret.value : ret.value[k].operation_id = k
        /\ plan.operations = ret.value

\* A machinable plan whose list holds all eight operations.
C1_Witness ==
    /\ OperationsReturned
    /\ plan.is_machinable
    /\ Len(ret.value) = 8
    /\ ret.value[8].operation_id = 8

\* C2: for a machinable plan, the last operation of the synthesized list is
\* the parting operation, whatever the diameter, the targets, the number of
\* cylindrical faces and the detected features.
C2_PartingIsLast ==
    (OperationsReturned /\ plan.is_machinable) =>
        /\ ret.value # << >>
        /\ ret.value[Len(ret.value)].type = "parting"
        /\ ret.value[Len(ret.value)].name = "Parting Off"

\* A machinable plan with a grooving operation, which is added just before
\* the parting operation.
C2_Witness ==
    /\ OperationsReturned
    /\ plan.is_machinable
    /\ Len(ret.value) >= 3
    /\ ret.value[Len(ret.value) - 1].type = "grooving"
    /\ ret.value[Len(ret.value)].type = "parting"

\* C3: after generate_operations and then generate_tool_list, the tool list
\* holds "Threading Insert" exactly when a threading operation is present,
\* which is exactly when the feature detector detected threading; the same for
\* "Grooving Insert", the grooving operation and detected grooving.
C3_InsertsFollowDetectedFeatures ==
    pc = "tools" =>
        /\ HasTool("Threading Insert") <=> HasOp("threading")
        /\ HasOp("threading") <=> Detected("threading")
        /\ HasTool("Grooving Insert") <=> HasOp("grooving")
        /\ HasOp("grooving") <=> Detected("grooving")

\* A tool list with the threading insert and without the grooving insert.
C3_Witness ==
    /\ pc = "tools"
    /\ Detected("threading") /\ HasOp("threading") /\ HasTool("Threading Insert")
    /\ ~Detected("grooving") /\ ~HasOp("grooving") /\ ~HasTool("Grooving Insert")

\* The levels of the validation messages with the given title.
RuleLevels(title) ==
    { plan.validation.messages[k].level :
        k \in { j \in DOMAIN plan.validation.messages :
                  plan.validation.messages[j].title = title } }

SynthesisRulesPass ==
    /\ RuleLevels("Threading Rule") = { "pass" }
    /\ RuleLevels("Grooving Rule") = { "pass" }
    /\ RuleLevels("Tolerance/Ra Rule") = { "pass" }

SevenChecks ==
    { "axisymmetric_xy", "turnable_majority", "small_asymmetry_ok",
      "cylindrical_dominance", "circular_edge_support", "limited_complexity",
      "reasonable_aspect_ratio" }

AllSevenTrue(checks) ==
    /\ DOMAIN checks = SevenChecks
    /\ \A k \in SevenChecks : checks[k]

\* A plan was constructed from a successful analysis.
Planned == pc \notin { "start", "analyzed" } /\ analysis.success

\* C5: the analyzer's strict_turnable is true exactly when all seven checks
\* are true and the turning score is at least 66, and the plan built from
\* that analysis has the same strict_turnable.
C5_StrictVerdict ==
    (Planned /\ analysis.machinability.turning.has_strict_turnable) =>
        LET t == analysis.machinability.turning
        IN  /\ t.strict_turnable <=> (AllSevenTrue(t.strict_checks) /\ t.score >= 66)
            /\ plan.strict_turnable <=> t.strict_turnable

\* A strictly turnable part, and a plan that took the verdict over.
C5_Witness ==
    /\ Planned
    /\ analysis.machinability.turning.has_strict_turnable
    /\ AllSevenTrue(analysis.machinability.turning.strict_checks)
    /\ analysis.machinability.turning.score >= 66
    /\ plan.strict_turnable

\* C6: partial_turnable is true exactly when the score is at least 40,
\* cylindrical_dominance is true and circular_edge_support or
\* reasonable_aspect_ratio is true; when the analysis has no strict checks,
\* exactly when the score is at least 45; and is_machinable is strict_turnable
\* or partial_turnable.
C6_PartialVerdict ==
    Planned =>
        LET t == analysis.machinability.turning
            sc == t.strict_checks
        IN  /\ plan.turning_score = 10 * t.score
            /\ DOMAIN sc # {} =>
                 (plan.partial_turnable <=>
                    /\ t.score >= 40
                    /\ sc.cylindrical_dominance
                    /\ sc.circular_edge_support \/ sc.reasonable_aspect_ratio)
            /\ DOMAIN sc = {} => (plan.partial_turnable <=> t.score >= 45)
            /\ plan.is_machinable <=> (plan.strict_turnable \/ plan.partial_turnable)

\* A part that is partially but not strictly turnable, on the strength of
\* its circular edges alone (the aspect ratio check fails).
C6_Witness ==
    /\ Planned
    /\ DOMAIN analysis.machinability.turning.strict_checks # {}
    /\ analysis.machinability.turning.strict_checks.circular_edge_support
    /\ ~analysis.machinability.turning.strict_checks.reasonable_aspect_ratio
    /\ plan.partial_turnable
    /\ ~plan.strict_turnable
    /\ plan.is_machinable

C8_SpindleSpeedWithinLimits ==
    OperationsReturned =>
        \A k \in DOMAIN ret.value :
            /\ ret.value[k].spindle_speed >= 100
            /\ ret.value[k].spindle_speed <= machine_limits(plan.machine_profile).max_rpm

ToolOfKind ==
    { << "Facing Insert", "facing" >>, << "Turning Insert", "turning" >>,
      << "Boring Insert", "boring" >>, << "Threading Insert", "threading" >>,
      << "Grooving Insert", "grooving" >>, << "Parting Blade", "parting" >>,
      << "Fine Finishing Insert", "finishing" >> }

\* C9: for the operations synthesized for a machinable plan, a tool of the
\* catalog, or the fine finishing insert, is in the tool list exactly when
\* the operation list holds an operation of its kind.
C9_ToolsFollowOperations ==
    (pc = "tools" /\ plan.is_machinable) =>
        \A tk \in ToolOfKind : HasTool(tk[1]) <=> HasOp(tk[2])

\* The signed delta of a check, by its outcome.
CheckDelta(check, outcome) ==
    CASE check = "axisymmetric_xy" -> IF outcome THEN 28 ELSE 0 - 20
      [] check = "turnable_majority" -> IF outcome THEN 16 ELSE 0 - 8
      [] check = "small_asymmetry_ok" -> IF outcome THEN 6 ELSE 0 - 6
      [] check = "cylindrical_dominance" -> IF outcome THEN 20 ELSE 0 - 15
      [] check = "circular_edge_support" -> IF outcome THEN 18 ELSE 0 - 10
      [] check = "limited_complexity" -> IF outcome THEN 12 ELSE 0 - 20
      [] check = "reasonable_aspect_ratio" -> IF outcome THEN 10 ELSE 0 - 12

RECURSIVE SumOfDeltas(_, _)
SumOfDeltas(checks, names) ==
    IF names = {} THEN 0
    ELSE LET k == CHOOSE x \in names : TRUE
         IN  CheckDelta(k, checks[k]) + SumOfDeltas(checks, names \ {k})

\* The analysis of a part the analyzer read itself.
AnalyzerScored ==
    /\ pc # "start"
    /\ analysis.success
    /\ inp.source = "ocp"
    /\ DOMAIN analysis.machinability.turning.strict_checks = SevenChecks

\* The fallback envelope bonus applies: no axis fit and an X/Y delta ratio
\* of at most 0.25 (on extents floored to 0.001 mm).
FallbackEnvelope ==
    LET x == Max(analysis.dimensions.x_size * 100, 1)
        y == Max(analysis.dimensions.y_size * 100, 1)
    IN  /\ ~analysis.machinability.turning.axis_analysis.available
        /\ 4 * Abs(x - y) <= Max(x, y)

\* C10, as stated: the turning score is the sum of the seven per-check deltas
\* plus the base shift 16, clamped to 0..100, so that it is a function of the
\* seven check outcomes alone.
C10_ScoreFromSevenDeltas ==
    AnalyzerScored =>
        LET t == analysis.machinability.turning
        IN  t.score = Max(0, Min(100, SumOfDeltas(t.strict_checks, SevenChecks) + 16))

\* C10, amended: the turning score is the sum of the seven per-check deltas,
\* plus 8 when no axis fit is available and the X/Y delta ratio is at most
\* 0.25, plus the base shift 16, clamped to 0..100.
C10_ScoreFromSevenDeltasAndFallback ==
    AnalyzerScored =>
        LET t == analysis.machinability.turning
            bonus == IF FallbackEnvelope THEN 8 ELSE 0
        IN  t.score = Max(0, Min(100, SumOfDeltas(t.strict_checks, SevenChecks)
                                        + bonus + 16))

\* A digest scored with the fallback bonus, away from both ends of the clamp.
C10_Witness ==
    /\ AnalyzerScored
    /\ FallbackEnvelope
    /\ analysis.machinability.turning.score =
         SumOfDeltas(analysis.machinability.turning.strict_checks, SevenChecks) + 24
    /\ analysis.machinability.turning.score \in 1..99

\* An analysis was returned (by the analyzer, or by its demo mode).
Analyzed == pc # "start" /\ analysis.success

\* C11: for every digest and axis fit the turning score is an integer in
\* 0..100, and the score the planner reads is that score.
C11_ScoreInRange ==
    Analyzed =>
        /\ analysis.machinability.turning.score \in 0..100
        /\ Planned => plan.turning_score = 10 * analysis.machinability.turning.score

\* A digest whose deltas sum below zero before the clamp: the score is 0.
C11_Witness ==
    /\ AnalyzerScored
    /\ Planned
    /\ SumOfDeltas(analysis.machinability.turning.strict_checks, SevenChecks) + 16 < 0
    /\ analysis.machinability.turning.score = 0
    /\ plan.turning_score = 0

\* C12: with the other check outcomes, the axis fit and the extents fixed,
\* the score with cylindrical_dominance true is never below the score with it
\* false, and the same for circular_edge_support; the score of the digest is
\* the one for its own outcome.
C12_ScoreMonotone ==
    AnalyzerScored =>
        LET t == analysis.machinability.turning
            c == t.strict_checks
        IN  \A k \in { "cylindrical_dominance", "circular_edge_support" } :
                LET lo == turning_score_of([ c EXCEPT ![k] = FALSE ],
                                           t.axis_analysis, analysis.dimensions)
                    hi == turning_score_of([ c EXCEPT ![k] = TRUE ],
                                           t.axis_analysis, analysis.dimensions)
                IN  /\ lo <= hi
                    /\ t.score = IF c[k] THEN hi ELSE lo

\* A digest without cylindrical dominance whose score would rise by the full
\* 35 points with it (neither score is clamped).
C12_Witness ==
    /\ AnalyzerScored
    /\ ~analysis.machinability.turning.strict_checks.cylindrical_dominance
    /\ analysis.machinability.turning.score \in 1..64
    /\ turning_score_of([ analysis.machinability.turning.strict_checks
                            EXCEPT !.cylindrical_dominance = TRUE ],
                        analysis.machinability.turning.axis_analysis,
                        analysis.dimensions)
         = analysis.machinability.turning.score + 35

\* The axis fit of a part the analyzer read itself.
AxisFitted == Analyzed /\ inp.source = "ocp"

\* C13: the numbers of cues aligned within 8 and within 15 degrees are
\* between 0 and the number of cues (the ratios are in [0,1]; both are 0 for
\* an empty list), and the number within 8 degrees is at most the number
\* within 15 degrees.
C13_AlignedRatiosOrdered ==
    AxisFitted =>
        LET fit == analysis.machinability.turning.axis_analysis
        IN  /\ fit.count = Len(inp.axis_cues)
            /\ 0 <= fit.aligned_8
            /\ fit.aligned_8 <= fit.aligned_15
            /\ fit.aligned_15 <= fit.count

\* Two cues, each 12.7 degrees off their best axis: none within 8 degrees,
\* both within 15.
C13_Witness ==
    /\ AxisFitted
    /\ analysis.machinability.turning.axis_analysis.count = 2
    /\ analysis.machinability.turning.axis_analysis.aligned_8 = 0
    /\ analysis.machinability.turning.axis_analysis.aligned_15 = 2

\* C14: an empty cue list gives available = false, the axis (0,0,1), both
\* aligned ratios 0 and the mean misalignment 90; the axisymmetric and the
\* turnable_majority checks are then false and so is strict_turnable,
\* whatever the counts and the extents are.
C14_EmptyCueList ==
    (AnalyzerScored /\ inp.axis_cues = << >>) =>
        LET t == analysis.machinability.turning
            fit == t.axis_analysis
        IN  /\ ~fit.available
            /\ fit.best = <<0, 0, 1>>
            /\ fit.aligned_8 = 0
            /\ fit.aligned_15 = 0
            /\ fit.mean_misalignment_deg = 9000
            /\ ~t.strict_checks.axisymmetric_xy
            /\ ~t.strict_checks.turnable_majority
            /\ ~t.strict_turnable

\* A part without cues that passes the five other checks.
C14_Witness ==
    /\ AnalyzerScored
    /\ inp.axis_cues = << >>
    /\ \A k \in SevenChecks \ { "axisymmetric_xy", "turnable_majority" } :
           analysis.machinability.turning.strict_checks[k]
    /\ ~analysis.machinability.turning.strict_turnable

Cross(a, b) ==
    << a[2] * b[3] - a[3] * b[2], a[3] * b[1] - a[1] * b[3], a[1] * b[2] - a[2] * b[1] >>

\* C15: for a non-empty cue list whose cues all equal one vector v, the best
\* axis has the direction of v, every cue is aligned within 8 and within 15
\* degrees (both ratios are 1) and the mean misalignment is 0.
C15_EqualCues ==
    (AxisFitted /\ inp.axis_cues # << >>
       /\ \A i \in DOMAIN inp.axis_cues : inp.axis_cues[i] = inp.axis_cues[1]) =>
        LET fit == analysis.machinability.turning.axis_analysis
            v == inp.axis_cues[1]
        IN  /\ fit.available
            /\ Cross(fit.best, v) = <<0, 0, 0>>
            /\ dot(fit.best, v) > 0
            /\ fit.aligned_8 = Len(inp.axis_cues)
            /\ fit.aligned_15 = Len(inp.axis_cues)
            /\ fit.mean_misalignment_deg = 0

\* Two equal cues along a tilted axis.
C15_Witness ==
    /\ AxisFitted
    /\ inp.axis_cues = << <<0, 9, 40>>, <<0, 9, 40>> >>
    /\ analysis.machinability.turning.axis_analysis.aligned_8 = 2
    /\ analysis.machinability.turning.axis_analysis.mean_misalignment_deg = 0

HasOpNamed(name) == \E k \in DOMAIN plan.operations : plan.operations[k].name = name

\* The diameter of the part of the run: the larger of the x and y extents of
\* its digest.
PartDiameter == Max(inp.dimensions.x_size, inp.dimensions.y_size)

\* C16: the operations generate_turning_plan synthesizes for a machinable
\* part hold a rough-turning operation exactly when the part diameter (the
\* larger of the x and y extents of the digest) is strictly greater than
\* 20 mm.
C16_RoughTurningIffDiameterOver20 ==
    (pc = "operations" /\ inp.entry = "generate_turning_plan" /\ inp.source = "ocp"
     /\ plan.is_machinable) =>
        (HasOpNamed("Rough Turning") <=> PartDiameter > 200)

\* The targets of the run ask for a fine finish: a tolerance is supplied and
\* is at most 0.05 mm, or a roughness is supplied and is at most Ra 1.6.
TightTarget ==
    \/ inp.tolerance_mm # NoneVal /\ inp.tolerance_mm <= 50
    \/ inp.surface_roughness_ra # NoneVal /\ inp.surface_roughness_ra <= 160

\* C17: the operations synthesized for a machinable plan hold a fine finish
\* pass exactly when a tolerance target is supplied and is at most 0.05 mm
\* or a roughness target is supplied and is at most Ra 1.6; the plan's own
\* targets are those of the request.
C17_FineFinishIffTightTarget ==
    (pc = "operations" /\ plan.is_machinable) =>
        /\ plan.tolerance_mm = inp.tolerance_mm
        /\ plan.surface_roughness_ra = inp.surface_roughness_ra
        /\ (HasOpNamed("Fine Finish Pass") <=> TightTarget)

\* A fine finish pass for a tolerance of exactly 0.05 mm with a loose Ra.
C17_Witness ==
    /\ pc = "operations" /\ plan.is_machinable
    /\ inp.tolerance_mm = 50 /\ inp.surface_roughness_ra = 500
    /\ HasOpNamed("Fine Finish Pass")

ToolListReturned == ret.method = "generate_tool_list"

\* C18: the list generate_tool_list returns, which is the plan's tool list,
\* carries the tool ids 1..N in list order.
C18_ToolIdsAreListPositions ==
    ToolListReturned =>
        /\ ret.value = plan.tools
        /\ \A k \in DOMAIN ret.value : ret.value[k].tool_id = k

\* The threading insert is filtered out, the grooving insert is kept and the
\* fine finishing insert is appended: six tools, the last three at positions
\* other than their catalog ids.
C18_Witness ==
    /\ ToolListReturned
    /\ ~HasTool("Threading Insert") /\ HasTool("Grooving Insert")
    /\ Len(ret.value) = 6
    /\ ret.value[6].name = "Fine Finishing Insert"

UnknownMaterial == inp.material_profile \notin DOMAIN MATERIAL_SPEED_FACTORS
UnknownMachine == inp.machine_profile \notin DOMAIN MACHINE_PROFILES

\* The plan of the same analysis and targets with the default profile in the
\* place of each unknown name, after generate_operations, generate_tool_list
\* and run_validation_checks.
PlanWithDefaultProfiles ==
    LET d0 == new_plan(analysis,
                       IF UnknownMaterial THEN DEFAULT_MATERIAL_PROFILE
                       ELSE inp.material_profile,
                       IF UnknownMachine THEN DEFAULT_MACHINE_PROFILE
                       ELSE inp.machine_profile,
                       inp.tolerance_mm, inp.surface_roughness_ra)
        d1 == generate_operations(d0, analysis)[2]
        d2 == [ d1 EXCEPT !.tools = generate_tool_list(d1) ]
    IN  [ d2 EXCEPT !.validation = run_validation_checks(d2, analysis) ]

\* The methods of the plan were called up to the given one.
Reached(stage) ==
    \/ pc \in stage
    \/ pc \in { "validated", "advised" }
    \/ pc = "done" /\ result.kind # "not_machinable"

\* C19: a run with an unknown material or machine name goes on as the run
\* with the default profile in its place: same verdict, same operations
\* (spindle speeds and times included), same tool list, same validation
\* status and messages, in the plan and in the result that is returned.
C19_UnknownProfilesActAsDefaults ==
    (Planned /\ (UnknownMaterial \/ UnknownMachine)) =>
        LET d == PlanWithDefaultProfiles
        IN  /\ plan.is_machinable = d.is_machinable
            /\ Reached({ "operations", "tools" }) => plan.operations = d.operations
            /\ Reached({ "tools" }) => plan.tools = d.tools
            /\ Reached({}) => plan.validation = d.validation
            /\ result.kind = "plan" =>
                   /\ result.operations = d.operations
                   /\ result.tools = d.tools
                   /\ result.validation = d.validation

\* A validated plan for an unknown machine, with an operation at the 4000 RPM
\* limit of the default machine.
C19_Witness ==
    /\ pc = "validated" /\ plan.is_machinable
    /\ UnknownMachine
    /\ \E k \in DOMAIN plan.operations : plan.operations[k].spindle_speed = 4000

\* The digest of the run has no face, no edge and no axis cue.
EmptyDigest ==
    /\ inp.source = "ocp"
    /\ \A k \in DOMAIN inp.surface_types : inp.surface_types[k] = 0
    /\ \A k \in DOMAIN inp.edge_types : inp.edge_types[k] = 0
    /\ inp.axis_cues = << >>

\* C20: a digest with all surface and edge counts zero and no axis cue,
\* whatever its extents, is analyzed successfully and is not turnable: the
\* analyzer's strict_turnable is false, the plan's strict_turnable,
\* partial_turnable and is_machinable are false, and generate_turning_plan
\* returns the rejection.
C20_EmptyDigestNotTurnable ==
    (EmptyDigest /\ pc # "start") =>
        /\ analysis.success
        /\ LET t == analysis.machinability.turning
           IN  t.has_strict_turnable => ~t.strict_turnable
        /\ pc # "analyzed" =>
               ~plan.strict_turnable /\ ~plan.partial_turnable /\ ~plan.is_machinable
        /\ (pc = "done" /\ inp.entry = "generate_turning_plan") =>
               result.kind = "not_machinable"

\* generate_turning_plan rejected an empty digest with the extents
\* 100 x 30 x 600 mm.
C20_Witness ==
    /\ EmptyDigest
    /\ inp.dimensions = Extents(1000, 300, 6000)
    /\ pc = "done" /\ result.kind = "not_machinable"
    /\ ~plan.is_machinable

\* The digest of the run has 60 complex faces, which are 0.9 of its faces to
\* one decimal place, and cylinders which are 0.05 of its faces to two.
ComplexScenario ==
    LET total == sum_values(inp.surface_types)
        complex == inp.surface_types["BezierSurface"] + inp.surface_types["BSplineSurface"]
                   + inp.surface_types["Other"]
        cyl == inp.surface_types["Cylinder"]
    IN  /\ inp.source = "ocp"
        /\ complex = 60
        /\ 85 * total <= 100 * complex /\ 100 * complex < 95 * total
        /\ 45 * total <= 1000 * cyl /\ 1000 * cyl < 55 * total

\* C21 as stated: such a digest fails limited_complexity, which is listed
\* among the failing checks, and the part is not machinable.
C21_ComplexScenarioNotMachinable ==
    (ComplexScenario /\ AnalyzerScored /\ Planned) =>
        /\ ~analysis.machinability.turning.strict_checks.limited_complexity
        /\ "limited_complexity" \in failing_checks(analysis)
        /\ ~plan.is_machinable

\* C21, amended: such a digest fails limited_complexity, which is listed
\* among the failing checks (of the analysis and of the rejection that
\* generate_turning_plan returns), and the part is not strictly turnable; it
\* is not machinable when cylindrical_dominance fails, as it does for every
\* such digest without a conical face.
C21_ComplexScenarioNotStrict ==
    (ComplexScenario /\ AnalyzerScored /\ Planned) =>
        LET t == analysis.machinability.turning
        IN  /\ ~t.strict_checks.limited_complexity
            /\ "limited_complexity" \in failing_checks(analysis)
            /\ ~t.strict_turnable /\ ~plan.strict_turnable
            /\ inp.surface_types["Cone"] = 0 => ~t.strict_checks.cylindrical_dominance
            /\ ~t.strict_checks.cylindrical_dominance => ~plan.is_machinable
            /\ result.kind = "not_machinable" =>
                   "limited_complexity" \in result.turning_limitations

\* generate_turning_plan rejected a digest of 60 complex faces and 3
\* cylinders without a conical face.
C21_Witness ==
    /\ ComplexScenario /\ AnalyzerScored
    /\ inp.surface_types["Cone"] = 0
    /\ pc = "done" /\ result.kind = "not_machinable"
    /\ "limited_complexity" \in result.turning_limitations

\* The digest of the run has cylinder ratio 0.6, circle-edge ratio 0.3, one
\* axis cue repeated 20 times, aspect ratio 3.0 and no complex surface.
TurnableScenario ==
    LET s == inp.surface_types
        e == inp.edge_types
    IN  /\ inp.source = "ocp" /\ inp.shape = "analyzer"
        /\ 10 * s["Cylinder"] = 6 * sum_values(s) /\ sum_values(s) > 0
        /\ 10 * e["Circle"] = 3 * sum_values(e) /\ sum_values(e) > 0
        /\ s["BezierSurface"] + s["BSplineSurface"] + s["Other"] = 0
        /\ Len(inp.axis_cues) = 20
        /\ \A k \in DOMAIN inp.axis_cues : inp.axis_cues[k] = inp.axis_cues[1]
        /\ inp.dimensions.z_size = 3 * PartDiameter /\ PartDiameter > 0

\* C22: for such a digest strict_turnable is true and the score is at least
\* 66; the operations include facing, finish turning and parting, include
\* rough turning when the part diameter is over 20 mm, and include a
\* threading operation exactly when the digest has a cone and at least two
\* cylinders.
C22_TurnableScenario ==
    (TurnableScenario /\ Planned) =>
        /\ analysis.machinability.turning.strict_turnable
        /\ plan.strict_turnable
        /\ analysis.machinability.turning.score >= 66
        /\ pc = "operations" =>
               /\ plan.is_machinable
               /\ HasOpNamed("Face & Center")
               /\ HasOpNamed("Finish Turning")
               /\ HasOpNamed("Parting Off")
               /\ (PartDiameter > 200 => HasOpNamed("Rough Turning"))
               /\ (HasOpNamed("Threading") <=>
                      (inp.surface_types["Cone"] > 0 /\ inp.surface_types["Cylinder"] >= 2))

\* The place of an operation in the fixed sequence facing, rough turning,
\* finish turning, fine finish, boring, threading, grooving, parting; 0 for
\* any other name.
SequencePlace(name) ==
    CASE name = "Face & Center" -> 1
      [] name = "Rough Turning" -> 2
      [] name = "Finish Turning" -> 3
      [] name = "Fine Finish Pass" -> 4
      [] name = "Boring" -> 5
      [] name = "Threading" -> 6
      [] name = "Grooving" -> 7
      [] name = "Parting Off" -> 8
      [] OTHER -> 0

\* C23: in the operation list synthesized for a machinable plan every
\* operation is one of the eight kinds, the kinds appear in the fixed order
\* and each at most once (their places strictly increase along the list),
\* facing is first, finish turning is present, and boring is present exactly
\* when the cylindrical-face count is greater than 2.
C23_FixedOperationOrder ==
    (OperationsReturned /\ plan.is_machinable) =>
        LET ops == ret.value
        IN  /\ ops = plan.operations
            /\ \A i \in DOMAIN ops : SequencePlace(ops[i].name) > 0
            /\ \A i, j \in DOMAIN ops :
                   i < j => SequencePlace(ops[i].name) < SequencePlace(ops[j].name)
            /\ ops # << >> /\ ops[1].name = "Face & Center"
            /\ HasOpNamed("Finish Turning")
            /\ (HasOpNamed("Boring") <=> analysis.cylindrical_faces > 2)

\* A list with all eight operations.
C23_Witness ==
    /\ OperationsReturned /\ plan.is_machinable
    /\ Len(ret.value) = 8
    /\ \A i \in 1..8 : SequencePlace(ret.value[i].name) = i

\* The evidence for a feature in the analysis of the run, in evaluation
\* order: << weight, reason >> for each rule of the detector that applies.
Evidence(feature) ==
    LET s == analysis.model_info.surface_types
        faces == Max(analysis.model_info.geometry_stats.faces, 1)
        edges == analysis.model_info.geometry_stats.edges
        d == format_dimensions(analysis)
        rules ==
            IF feature = "threading"
            THEN << << s["Cone"] > 0 /\ s["Cylinder"] >= 2, 2, "cone + cylinders" >>,
                    << 10 * edges >= 28 * faces /\ s["Cylinder"] >= 3, 1, "edge density" >>,
                    << 10 * d.length >= 12 * d.diameter, 1, "length/diameter" >> >>
            ELSE << << s["Torus"] > 0, 2, "torus" >>,
                    << s["Cylinder"] >= 4 /\ s["Plane"] >= 4 /\ 10 * edges >= 22 * faces,
                       1, "cylinder-plane transitions" >>,
                    << analysis.cylindrical_faces >= 5, 1, "cylindrical face count" >> >>
    IN  SelectSeq(rules, LAMBDA r : r[1])

EvidenceScore(feature) ==
    LET e == Evidence(feature)
    IN  SumOver([ k \in DOMAIN e |-> e[k][2] ], DOMAIN e)

EvidenceReasons(feature) ==
    LET e == Evidence(feature)
    IN  [ k \in DOMAIN e |-> e[k][3] ]

FeaturesDetected == pc = "operations" /\ plan.has_feature_detection

\* C24 as stated: a score of 3 or more gives detected with confidence high,
\* a score of 2 detected with confidence medium, any lower score not
\* detected with confidence low and the generic no-evidence reason; at most
\* 3 reasons are kept, in evaluation order.
C24_ScoreToConfidence ==
    FeaturesDetected =>
        \A f \in { "threading", "grooving" } :
            LET r == plan.feature_detection[f]
                score == EvidenceScore(f)
            IN  /\ Len(r.reasons) <= 3
                /\ score >= 3 => r.detected /\ r.confidence = "high"
                                 /\ r.reasons = EvidenceReasons(f)
                /\ score = 2 => r.detected /\ r.confidence = "medium"
                                /\ r.reasons = EvidenceReasons(f)
                /\ score < 2 => ~r.detected /\ r.confidence = "low"
                                /\ r.reasons = << "no strong geometric evidence" >>

\* C24, amended: below a score of 2 the result is not detected with
\* confidence low, and its reasons are the evidence found (one reason, at a
\* score of 1), the generic no-evidence reason standing in only when there
\* is none (score 0).
C24_ScoreToConfidenceKeepingEvidence ==
    FeaturesDetected =>
        \A f \in { "threading", "grooving" } :
            LET r == plan.feature_detection[f]
                score == EvidenceScore(f)
            IN  /\ Len(r.reasons) <= 3
                /\ score >= 3 => r.detected /\ r.confidence = "high"
                                 /\ r.reasons = EvidenceReasons(f)
                /\ score = 2 => r.detected /\ r.confidence = "medium"
                                /\ r.reasons = EvidenceReasons(f)
                /\ score = 1 => ~r.detected /\ r.confidence = "low"
                                /\ r.reasons = EvidenceReasons(f) /\ Len(r.reasons) = 1
                /\ score = 0 => ~r.detected /\ r.confidence = "low"
                                /\ r.reasons = << "no strong geometric evidence" >>

\* Threading at score 4 with its three reasons and grooving at score 2.
C24_Witness ==
    /\ FeaturesDetected
    /\ EvidenceScore("threading") = 4
    /\ Len(plan.feature_detection.threading.reasons) = 3
    /\ EvidenceScore("grooving") = 2
    /\ plan.feature_detection.grooving.confidence = "medium"

ValidationReturned == ret.method = "run_validation_checks"

\* The titles of the validation messages, in the order of the checks.
ValidationTitles ==
    << "Threading Rule", "Grooving Rule", "Tolerance/Ra Rule", "Machine Diameter Limit",
       "Machine Length Limit", "Spindle Speed Margin", "Spindle Power Check" >>

\* The status of a report is the highest severity among its messages.
StatusIsWorstLevel(report) ==
    /\ \E k \in DOMAIN report.messages : report.messages[k].level = report.status
    /\ \A k \in DOMAIN report.messages :
           severity(report.messages[k].level) <= severity(report.status)

\* C25 as stated: the report has six messages, one per check, and its status
\* is the highest severity among them.
C25_SixMessages ==
    ValidationReturned =>
        /\ Len(ret.value.messages) = 6
        /\ StatusIsWorstLevel(ret.value)

\* C25, amended: for every plan, machinable or not, the report has seven
\* messages, one per check in the fixed order of the checks, each of level
\* pass, warn or fail, and its status is the highest severity among them
\* under pass < warn < fail; the report is stored on the plan.
C25_SevenMessages ==
    ValidationReturned =>
        /\ ret.value = plan.validation
        /\ Len(ret.value.messages) = 7
        /\ \A k \in 1..7 :
               /\ ret.value.messages[k].title = ValidationTitles[k]
               /\ ret.value.messages[k].level \in { "pass", "warn", "fail" }
        /\ StatusIsWorstLevel(ret.value)

\* A report whose status is warn: a warning and no failure.
C25_Witness ==
    /\ ValidationReturned
    /\ Len(ret.value.messages) = 7
    /\ ret.value.status = "warn"
    /\ ret.value.messages[6].level = "warn"
    /\ \A k \in 1..7 : ret.value.messages[k].level # "fail"

\* The first rough-turning operation of the plan.
RoughTurningOp ==
    plan.operations[CHOOSE i \in DOMAIN plan.operations :
                        /\ plan.operations[i].name = "Rough Turning"
                        /\ \A j \in 1..(i - 1) : plan.operations[j].name # "Rough Turning"]

\* The estimated roughing power pi x diameter x rpm x feed x depth_of_cut
\* / 1000 x specific power exceeds 85% of the machine's rated power.  With
\* the diameter d in tenths of a mm, feed f and depth ap in hundredths, the
\* specific power in thousandths and the rated power P in tenths of a kW:
\* 314159 * d * rpm * f * ap * spec > 85 * 10^13 * P.
RoughingPowerOver85Percent ==
    LET op == RoughTurningOp
        d == format_dimensions(analysis).diameter
        spec == IF plan.material_profile \in DOMAIN SPECIFIC_POWER_KW_PER_CM3_MIN
                THEN SPECIFIC_POWER_KW_PER_CM3_MIN[plan.material_profile]
                ELSE SPECIFIC_POWER_KW_PER_CM3_MIN[DEFAULT_MATERIAL_PROFILE]
        rated == machine_limits(plan.machine_profile).max_power_kw
    IN  ~FracGE(850000 * rated, d * op.spindle_speed * spec,
                314159 * op.feed_rate * op.depth_of_cut, 1000000000)

\* C26: the Spindle Power Check message is warn exactly when the plan has a
\* rough-turning operation whose estimated power exceeds 85% of the
\* machine's rated power, and pass otherwise; a plan with a diameter of at
\* most 20 mm has no rough-turning operation and its message is pass.
C26_SpindlePowerCheck ==
    ValidationReturned =>
        LET m == ret.value.messages[7]
        IN  /\ m.title = "Spindle Power Check"
            /\ m.level \in { "pass", "warn" }
            /\ m.level = "warn" <=>
                   (HasOpNamed("Rough Turning") /\ RoughingPowerOver85Percent)
            /\ format_dimensions(analysis).diameter <= 200 =>
                   ~HasOpNamed("Rough Turning") /\ m.level = "pass"

\* A warning for roughing a 1500 mm part of SS316 at 100 RPM on the default
\* machine: 14.1 kW against 85% of 14.9 kW.
C26_Witness ==
    /\ ValidationReturned
    /\ HasOpNamed("Rough Turning")
    /\ inp.dimensions.x_size = 15000
    /\ plan.material_profile = "SS316 / 316L"
    /\ plan.machine_profile = DEFAULT_MACHINE_PROFILE
    /\ ret.value.messages[7].level = "warn"

\* The plan of the run as it is without the advisory step: built from the
\* analysis and the request, after generate_operations, generate_tool_list
\* and run_validation_checks.
PlanWithoutAdvice ==
    LET d0 == new_plan(analysis, inp.material_profile, inp.machine_profile,
                       inp.tolerance_mm, inp.surface_roughness_ra)
        d1 == generate_operations(d0, analysis)[2]
        d2 == [ d1 EXCEPT !.tools = generate_tool_list(d1) ]
    IN  [ d2 EXCEPT !.validation = run_validation_checks(d2, analysis) ]

\* The advisory step has run.
Advised == inp.with_ai /\ (pc = "advised" \/ (pc = "done" /\ result.kind # "not_machinable"))

\* C27: after the advisory step, whatever the outcome of the LLM call, the
\* plan is the plan without the step except for ai_recommendations, which
\* holds the response, the empty-response notice or the text of the error;
\* generate_turning_plan returns success with the verdict, operations, tools
\* and validation report of that plan.
C27_AdviceLeavesPlan ==
    Advised =>
        /\ [ plan EXCEPT !.ai_recommendations = "" ] = PlanWithoutAdvice
        /\ plan.is_machinable =>
               plan.ai_recommendations =
                   CASE inp.ai_outcome = "text" -> "response"
                     [] inp.ai_outcome = "empty" -> "empty response notice"
                     [] inp.ai_outcome = "error" -> "Error: OllamaError"
        /\ result.kind = "plan" =>
               /\ result.success
               /\ result.strict_turnable = PlanWithoutAdvice.strict_turnable
               /\ result.partial_turnable = PlanWithoutAdvice.partial_turnable
               /\ result.operations = PlanWithoutAdvice.operations
               /\ result.tools = PlanWithoutAdvice.tools
               /\ result.validation = PlanWithoutAdvice.validation
               /\ result.ai_recommendations = plan.ai_recommendations

\* generate_turning_plan returned a plan after an OllamaError.
C27_Witness ==
    /\ pc = "done" /\ result.kind = "plan"
    /\ inp.with_ai /\ inp.ai_outcome = "error"
    /\ result.success
    /\ result.operations # << >>
    /\ result.ai_recommendations = "Error: OllamaError"

\* All seven strict checks of the analysis are true.
AllSevenChecks == \A k \in SevenChecks : analysis.machinability.turning.strict_checks[k]

\* C28: on an analysis the analyzer scored, strict_turnable is true exactly
\* when all seven checks are true, and then the turning score is 100, so the
\* threshold of 66 never decides the verdict; when strict_turnable is false
\* the list of failing checks named in the reason line is not empty.
C28_StrictMeansFullScore ==
    AnalyzerScored =>
        LET t == analysis.machinability.turning
        IN  /\ t.strict_turnable <=> AllSevenChecks
            /\ t.strict_turnable => t.score = 100
            /\ AllSevenChecks => t.score >= 66
            /\ ~t.strict_turnable => failing_checks(analysis) # {}

\* A strictly turnable part, scored 100.
C28_Witness ==
    /\ AnalyzerScored
    /\ AllSevenChecks
    /\ analysis.machinability.turning.strict_turnable
    /\ analysis.machinability.turning.score = 100

\* C29: a rejection returned by generate_turning_plan recommends a process
\* other than turning.
C29_RejectionRecommendsOtherProcess ==
    (pc = "done" /\ result.kind = "not_machinable") =>
        result.recommended_process # "turning"

\* The _run_analysis threads that are in their try block or their finally.
RunningWorkers == { w \in Workers : worker[w] \in { "in_try", "in_finally" } }

\* C30: at most one _run_analysis worker is running at any time, and
\* is_processing is true while one is running.
C30_AtMostOneWorker ==
    /\ Cardinality(RunningWorkers) <= 1
    /\ RunningWorkers # {} => is_processing

============================================================================
